---------------------------- MODULE Spec2Model ----------------------------
(***************************************************************************)
(* State-machine model of the hardware abstraction, safety filtering and   *)
(* control-loop subsystem of lerobot_gui:                                  *)
(*   - services/safety_filter.py     SafetyFilter                          *)
(*   - adapters/robots/*.py          GenericRobotAdapter, PiperRobotAdapter*)
(*   - robots/piper_follower         PiperFollower (the wrapped robot)     *)
(*   - pages/devices_page.py, main_window.py, widgets/estop_button.py      *)
(*                                                                         *)
(* Joint values are integers (one unit = one quantum of joint position);   *)
(* the filter only adds, subtracts and compares them.  A channel key is a  *)
(* sequence of name segments so that key.replace(".pos", "") is computed.  *)
(***************************************************************************)
EXTENDS Integers, Sequences, FiniteSets, TLC

(***************************************************************************)
(* Bounds of the model                                                     *)
(***************************************************************************)
\* inputs range over -Under..MaxVal
Under == 1
MaxVal == 3
MaxVel == 2
MaxDz == 2
MaxTime == 2
\* adapters constructed (connect attempts) and tasks submitted by the pages
MaxAdapters == 2
MaxTasks == 3
\* AdapterRegistry objects that can exist
MaxRegistries == 2

(***************************************************************************)
(* Program constants                                                       *)
(***************************************************************************)
\* SafetyFilter.__init__ default timeout_ms
TimeoutMs == 500
\* SafetyFilter.__init__ defaults of max_velocity (0.5) and deadzone (0.001),
\* in thousandths
DefaultMaxVelocity == 500
DefaultDeadzone == 1
\* check_timeout: seconds to milliseconds; the model clock counts seconds
MsPerSecond == 1000
\* the operating range configured for joint_1 when limits are configured
LimLo == 0
LimHi == 2

Vals == (0 - Under)..MaxVal

POS == ".pos"
Key1 == <<"joint_1", POS>>
Keys == {Key1}
\* a second channel, of a joint without configured range
Key2 == <<"joint_2", POS>>
Keys2 == {Key1, Key2}

\* the empty dict {}
EmptyMap == [k \in {} |-> 0]

\* joint_limits: none (SafetyFilter() as built by MainWindow) or a range
\* for joint_1 only
NoLimits == [j \in {} |-> <<0, 0>>]
Joint1Limits == [j \in {<<"joint_1">>} |-> <<LimLo, LimHi>>]

\* all dicts from a subset of the channel keys to values
Actions == UNION {[D -> Vals] : D \in SUBSET Keys}

\* all dicts from a subset of the two channel keys to values around the range
Actions2 == UNION {[D -> LimLo..(LimHi + 1)] : D \in SUBSET Keys2}

\* None / a returned dict
None == [is_none |-> TRUE, value |-> EmptyMap]
Some(d) == [is_none |-> FALSE, value |-> d]

Abs(x) == IF x < 0 THEN -x ELSE x
Max(a, b) == IF a >= b THEN a ELSE b
Min(a, b) == IF a <= b THEN a ELSE b

VARIABLES
    \* ---- SafetyFilter fields ----
    joint_limits,      \* self.joint_limits
    max_velocity,      \* self.max_velocity
    deadzone,          \* self.deadzone
    timeout_ms,        \* self.timeout_ms
    last_action,       \* self._last_action
    last_input_time,   \* self._last_input_time
    enabled,           \* self._enabled
    e_stopped,         \* self._e_stopped
    now,               \* time.time(), in clock units
    \* ---- observation of the last SafetyFilter call ----
    f_op,              \* name of the last call
    f_arg,             \* argument of the last filter_action call
    f_ret,             \* value returned by the last filter_action call
    f_pre,             \* _last_action as it was when that call started
    f_timeout,         \* value returned by the last check_timeout call
    emitted,           \* last value emitted per channel since construction/reset
    requested,         \* argument of the latest set_e_stop call
    reset_since,       \* reset() was called after the latest set_e_stop call
    since_reset,       \* "constructed"; "reset" after reset(); "first" once one
                       \* action was emitted after that reset; then "used"
    watch,             \* since: time of the last filter_action that returned an
                       \* action (of construction or reset() if none followed);
                       \* refused: a filter_action returned None later than that;
                       \* overdue: more than timeout_ms had passed since then
                       \* when check_timeout was last called
    \* ---- robot adapters and the threads that call them ----
    adapters,          \* the adapter objects, in order of construction
    thr,               \* per thread: position in the method it executes and
                       \* the observation of its last call
    \* ---- the application: E-STOP button, devices page, task pool ----
    estop_active,      \* EStopButton._active
    page,              \* DevicesPage: _current_adapter, buttons, status, timer
    tasks,             \* the Task objects submitted to the thread pool
    task_index,        \* TaskManager._tasks: task id -> the Task last submitted
    gui_events,        \* signal emissions queued for the GUI thread
    gui,               \* the handler the GUI thread is executing
    es,                \* observation of the last run of MainWindow._on_estop
    registry,          \* AdapterRegistry: _instance and the objects __new__ made
    reg,               \* observation of the calls on AdapterRegistry so far
    startup,           \* MainWindow.__init__ populating the registry: position,
                       \* the robot types the schema loader lists, loop index
    bc,                \* a call of GenericRobotAdapter._build_config: its
                       \* arguments and what it passed to the configuration class
    cam,               \* a camera adapter: _fps_ts, and the observation of its
                       \* frames and of the last fps_stats call
    teleop             \* TeleopPage: _robot_adapter, _running, timer, buttons

filterVars == <<joint_limits, max_velocity, deadzone, timeout_ms, last_action,
                last_input_time, enabled, e_stopped, now>>
filterObs == <<f_op, f_arg, f_ret, f_pre, f_timeout, emitted, requested, reset_since,
               since_reset, watch>>

adapterVars == <<adapters, thr>>

windowVars == <<estop_active, page, tasks, task_index, gui_events, gui, es>>

registryVars == <<registry, reg, startup, bc, cam>>

appVars == <<windowVars, registryVars>>

teleopVars == <<teleop>>

vars == <<filterVars, filterObs, adapterVars, appVars, teleopVars>>

(***************************************************************************)
(* SafetyFilter                                                            *)
(***************************************************************************)
\* key.replace(".pos", "")
JointName(key) == SelectSeq(key, LAMBDA s : s # POS)

\* 1. Clamp to joint limits
ClampToLimits_UpperOnly(key, value) ==
    LET joint_name == JointName(key) IN
    IF joint_name \in DOMAIN joint_limits
    THEN Min(joint_limits[joint_name][2], value)
    ELSE value

ClampToLimits(key, value) ==
    LET joint_name == JointName(key) IN
    IF joint_name \in DOMAIN joint_limits
    THEN LET lo == joint_limits[joint_name][1]
             hi == joint_limits[joint_name][2]
         IN Max(lo, Min(hi, value))
    ELSE value

\* 2. Velocity limit
VelocityLimit_Upward(key, value, last) ==
    IF key \in DOMAIN last
    THEN LET delta == value - last[key] IN
         IF Abs(delta) > max_velocity
         THEN last[key] + max_velocity
         ELSE value
    ELSE value

VelocityLimit(key, value, last) ==
    IF key \in DOMAIN last
    THEN LET delta == value - last[key] IN
         IF Abs(delta) > max_velocity
         THEN last[key] + max_velocity * (IF delta > 0 THEN 1 ELSE -1)
         ELSE value
    ELSE value

\* 3. Dead zone
DeadZone_AroundZero(key, value, last) ==
    IF key \in DOMAIN last /\ Abs(value) < deadzone
    THEN last[key]
    ELSE value

DeadZone(key, value, last) ==
    IF key \in DOMAIN last /\ Abs(value - last[key]) < deadzone
    THEN last[key]
    ELSE value

\* the body of the for loop of filter_action for one (key, value)
FilterChannel(key, value, last) ==
    DeadZone(key, VelocityLimit(key, ClampToLimits(key, value), last), last)

\* the dict "filtered" built by filter_action
Filtered(action, last) ==
    [k \in DOMAIN action |-> FilterChannel(k, action[k], last)]

\* emitted values override the older ones channel by channel
Override(old, new) ==
    [k \in (DOMAIN old) \cup (DOMAIN new) |->
        IF k \in DOMAIN new THEN new[k] ELSE old[k]]

SafetyFilterInit ==
    /\ last_action = EmptyMap
    /\ last_input_time = now
    /\ enabled = TRUE
    /\ e_stopped = FALSE

set_e_stop(active) ==
    /\ e_stopped' = active
    /\ requested' = active
    /\ reset_since' = FALSE
    /\ f_op' = "set_e_stop"
    /\ UNCHANGED <<joint_limits, max_velocity, deadzone, timeout_ms,
                   last_action, last_input_time, enabled, now>>
    /\ UNCHANGED <<f_arg, f_ret, f_pre, f_timeout, emitted, since_reset, watch>>

\* filter_action: "if self._e_stopped: return None"
Blocked_Ignored == FALSE
Blocked == e_stopped

\* filter_action: _last_input_time when the call returns None
TimeAfterBlocked_Restarted == now
TimeAfterBlocked == last_input_time

\* filter_action: _last_action when the call returns None
MemoryAfterBlocked_Cleared == EmptyMap
MemoryAfterBlocked == last_action

filter_action(action) ==
    /\ f_op' = "filter_action"
    /\ f_arg' = action
    /\ f_pre' = last_action
    /\ IF Blocked
       THEN /\ f_ret' = None
            /\ last_input_time' = TimeAfterBlocked
            /\ last_action' = MemoryAfterBlocked
            /\ watch' = [watch EXCEPT !.refused = @ \/ now > watch.since]
            /\ UNCHANGED <<emitted, since_reset>>
       ELSE IF ~enabled
       THEN /\ f_ret' = Some(action)
            /\ watch' = [watch EXCEPT !.since = now, !.refused = FALSE]
            /\ UNCHANGED <<last_action, last_input_time, emitted, since_reset>>
       ELSE LET filtered == Filtered(action, last_action) IN
            /\ last_input_time' = now
            /\ watch' = [watch EXCEPT !.since = now, !.refused = FALSE]
            /\ last_action' = filtered
            /\ f_ret' = Some(filtered)
            /\ emitted' = Override(emitted, filtered)
            /\ since_reset' = IF since_reset = "reset" THEN "first" ELSE "used"
    /\ UNCHANGED <<joint_limits, max_velocity, deadzone, timeout_ms, enabled,
                   e_stopped, now>>
    /\ UNCHANGED <<f_timeout, requested, reset_since>>

\* the value check_timeout() returns
CheckTimeoutValue == (now - last_input_time) * MsPerSecond > timeout_ms

check_timeout ==
    /\ f_op' = "check_timeout"
    /\ f_timeout' = CheckTimeoutValue
    /\ UNCHANGED filterVars
    /\ watch' = [watch EXCEPT !.overdue =
                                  (now - watch.since) * MsPerSecond > timeout_ms]
    /\ UNCHANGED <<f_arg, f_ret, f_pre, emitted, requested, reset_since,
                   since_reset>>

\* reset: "self._last_action = {}"
ResetMemory_Kept == last_action
ResetMemory == EmptyMap

reset ==
    /\ last_action' = ResetMemory
    /\ last_input_time' = now
    /\ e_stopped' = FALSE
    /\ f_op' = "reset"
    /\ emitted' = EmptyMap
    /\ reset_since' = TRUE
    /\ since_reset' = "reset"
    /\ watch' = [watch EXCEPT !.since = now, !.refused = FALSE]
    /\ UNCHANGED <<joint_limits, max_velocity, deadzone, timeout_ms, enabled,
                   now>>
    /\ UNCHANGED <<f_arg, f_ret, f_pre, f_timeout, requested>>

\* the wall clock advances
Advance ==
    /\ now < MaxTime
    /\ now' = now + 1
    /\ UNCHANGED <<joint_limits, max_velocity, deadzone, timeout_ms,
                   last_action, last_input_time, enabled, e_stopped>>
    /\ UNCHANGED filterObs

FilterObsInit ==
    /\ f_op = "init"
    /\ f_arg = EmptyMap
    /\ f_ret = None
    /\ f_pre = EmptyMap
    /\ f_timeout = FALSE
    /\ emitted = EmptyMap
    /\ requested = FALSE
    /\ reset_since = FALSE
    /\ since_reset = "constructed"
    /\ watch = [since |-> now, refused |-> FALSE, overdue |-> FALSE]

(***************************************************************************)
(* Robot adapters (GenericRobotAdapter, PiperRobotAdapter) and the robot   *)
(* they wrap (PiperFollower).  A method that takes the adapter lock is a   *)
(* step that acquires the lock followed by the steps of its body; the last *)
(* body step leaves the "with self._lock" block and returns.               *)
(***************************************************************************)
Client == <<"client", 1>>
Gui == <<"gui", 1>>
Worker(i) == <<"worker", i>>
\* the thread that shares an adapter with the client
Second == Worker(1)
Workers == {Worker(i) : i \in 1..MaxTasks}
Threads == {Client, Gui} \cup Workers
\* the lock is not held
Free == <<"free", 0>>
Kinds == {"generic", "piper"}

\* self._robot = None
NoRobot == [held |-> FALSE, bus |-> FALSE, cams |-> FALSE, flag |-> FALSE]
\* a robot object as its constructor leaves it: bus not connected,
\* _is_connected False; cams: every configured camera is connected
\* (TRUE from the start when no camera is configured)
NewRobot(nocams) == [held |-> TRUE, bus |-> FALSE, cams |-> nocams, flag |-> FALSE]

\* currentData() of the type combo box when it holds no type
NoType == "None"
\* the robot types the schema loader lists, in its order
SchemaTypes == <<"piper_follower", "so100_follower">>

\* the device type the params of connect carry for an adapter that is not
\* created by the devices page
TypeOfKind(kind) == IF kind = "piper" THEN SchemaTypes[1] ELSE SchemaTypes[2]

\* adapter __init__; robot_type: params["_robot_type"] of its connect
NewAdapter(kind) ==
    [kind |-> kind, robot |-> NoRobot, lock |-> Free, robot_type |-> TypeOfKind(kind)]

\* _build_config: "config_cls = RobotConfig.get_choice_class(robot_type)"
\* gives a class; PiperRobotAdapter.connect names its configuration class
ConfigClassKnown_Always(a) == TRUE
ConfigClassKnown(a) == a.kind = "piper" \/ a.robot_type # NoType

\* PiperFollower.is_connected
RobotIsConnected(r) == r.bus /\ r.cams

\* adapter.is_connected, read in one piece
IsConnected(r) == r.held /\ RobotIsConnected(r)

\* return values
Unit == [tag |-> "none", val |-> FALSE]
Bool(b) == [tag |-> "bool", val |-> b]
EmptyState == [tag |-> "empty", val |-> FALSE]
\* the mapping a successful read of the robot returns
MeasuredState == [k \in Keys |-> 0]
SomeState == [tag |-> "state", val |-> MeasuredState]
\* a state mapping returned by get_state
State(m) == [tag |-> "state", val |-> m]
\* a list of channel names
Names(list) == [tag |-> "names", val |-> list]
\* MOTOR_ORDER; the motors of the wrapped robot
MotorOrder == <<"joint_1">>
\* [f"{m}.pos" for m in MOTOR_ORDER]; the keys of action_features and the
\* keys of observation_features that are not camera entries
MotorNames == [i \in 1..Len(MotorOrder) |-> <<MotorOrder[i], POS>>]
ActionRet(a) == [tag |-> "action", val |-> a]
Diag(status) == [tag |-> "diag", val |-> status]
\* {"status": "error", "error": str(e)}
DiagError == [tag |-> "diag", val |-> "error", error |-> "str(e)"]

\* the observation of a stop(): calls: the methods it has called so far;
\* read: what the get_state among them returned; entry: the robot handle as
\* it was when stop() was entered; disturbed: another thread was inside a
\* method of the adapter at some moment since the stop() was entered
NoStop == [calls |-> <<>>, read |-> Unit, entry |-> NoRobot, disturbed |-> FALSE]

\* caller: "stop" while the method runs as a call made by stop();
\* stop: the observation of the thread's stop(), for a fully observed thread;
\* observed: what is recorded about the thread's call: "all"; "result": what
\* it returned or that it raised; "none": nothing once it has ended
IdleThread ==
    [pc |-> "idle", op |-> "none", prev |-> "none", ad |-> 0, arg |-> EmptyMap,
     ret |-> Unit, raised |-> FALSE, touched |-> FALSE, dev_err |-> FALSE,
     pre |-> NoRobot, caller |-> "none", observed |-> "all", stop |-> NoStop]

\* a thread whose caller reads the result of its call
ResultThread == [IdleThread EXCEPT !.observed = "result"]
\* a thread whose calls are not observed
UnobservedThread == [IdleThread EXCEPT !.observed = "none"]

\* methods that start with "with self._lock"
LockedOps == {"connect", "disconnect", "get_state", "send_action",
              "emergency_stop"}
AdapterOps == LockedOps \cup {"is_connected", "get_diagnostics"}
\* get_action_names, get_state_names
NameOps == {"get_action_names", "get_state_names"}

\* the robot handle as the observation of the thread's call records it
Seen(rec, r) == IF rec.observed = "all" THEN r ELSE NoRobot

\* thread t enters method op of adapter ad
Begin(rec, op, ad, arg) ==
    [rec EXCEPT !.pc = IF op \in LockedOps THEN "acquire" ELSE op,
                !.op = op, !.prev = rec.op, !.ad = ad, !.arg = arg,
                !.ret = Unit, !.raised = FALSE, !.touched = FALSE,
                !.dev_err = FALSE, !.pre = Seen(rec, adapters[ad].robot)]

\* where the method goes back to: its caller's caller, or stop()
Back(rec) == IF rec.caller = "none" THEN "idle" ELSE "back"
\* the method returns ret (leaving the lock if it holds it)
Return(rec, ret) ==
    IF rec.observed # "none" THEN [rec EXCEPT !.pc = Back(rec), !.ret = ret]
    ELSE UnobservedThread
\* the method raises (leaving the lock if it holds it)
Raise(rec) ==
    IF rec.observed # "none" THEN [rec EXCEPT !.pc = Back(rec), !.raised = TRUE]
    ELSE UnobservedThread

Touch(rec) == [rec EXCEPT !.touched = rec.observed = "all"]
DevErr(rec, failed) ==
    [rec EXCEPT !.touched = rec.observed = "all",
                !.dev_err = rec.observed = "all" /\ failed]

\* adapter ad after the body left the lock with robot r
Unlocked(ad, r) == [adapters EXCEPT ![ad].robot = r, ![ad].lock = Free]

\* threading.Lock: acquire() goes through only while no thread holds the
\* lock
LockFree_Always(ad) == TRUE
LockFree(ad) == adapters[ad].lock = Free

\* "with self._lock:" entered
Acquire(t) ==
    /\ thr[t].pc = "acquire"
    /\ LockFree(thr[t].ad)
    /\ adapters' = [adapters EXCEPT ![thr[t].ad].lock = t]
    /\ thr' = [thr EXCEPT ![t].pc = thr[t].op,
                          ![t].pre = Seen(thr[t], adapters[thr[t].ad].robot)]

\* connect: build the configuration, construct the robot, assign self._robot
ConnectBuild(t) ==
    LET ad == thr[t].ad IN
    /\ thr[t].pc = "connect"
    /\ \/ \E nocams \in BOOLEAN :
             /\ ConfigClassKnown(adapters[ad])
             /\ adapters' = [adapters EXCEPT ![ad].robot = NewRobot(nocams)]
             /\ thr' = [thr EXCEPT ![t].pc = "connect.bus"]
       \/ \* "raise ValueError(f"Unknown robot type: ...")", or the
          \* configuration or the robot cannot be constructed
          /\ adapters' = Unlocked(ad, adapters[ad].robot)
          /\ thr' = [thr EXCEPT ![t] = Raise(thr[t])]

\* connect: self._robot.connect() up to bus.connect(enable=True)
ConnectBus(t) ==
    LET ad == thr[t].ad
        r == adapters[ad].robot IN
    /\ thr[t].pc = "connect.bus"
    /\ \/ /\ adapters' = [adapters EXCEPT ![ad].robot.bus = TRUE]
          /\ thr' = [thr EXCEPT ![t] = [Touch(thr[t]) EXCEPT !.pc = "connect.finish"]]
       \/ /\ adapters' = Unlocked(ad, r)
          /\ thr' = [thr EXCEPT ![t] = Raise(DevErr(thr[t], TRUE))]

\* connect: cameras, _is_connected = True, calibrate()
ConnectFinish(t) ==
    LET ad == thr[t].ad
        r == adapters[ad].robot IN
    /\ thr[t].pc = "connect.finish"
    /\ \/ \* a camera fails to connect
          /\ ~r.cams
          /\ adapters' = Unlocked(ad, r)
          /\ thr' = [thr EXCEPT ![t] = Raise(DevErr(thr[t], TRUE))]
       \/ \* calibrate() raises
          /\ adapters' = Unlocked(ad, [r EXCEPT !.cams = TRUE, !.flag = TRUE])
          /\ thr' = [thr EXCEPT ![t] = Raise(DevErr(thr[t], TRUE))]
       \/ /\ adapters' = Unlocked(ad, [r EXCEPT !.cams = TRUE, !.flag = TRUE])
          /\ thr' = [thr EXCEPT ![t] = Return(thr[t], Unit)]

\* "if self._robot:" / "if self._robot is None: return"
HasHandle_Always(r) == TRUE
HasHandle(r) == r.held

\* disconnect: "finally: self._robot = None"
AfterDisconnect_OnSuccess(r, failed) == IF failed THEN r ELSE NoRobot
AfterDisconnect(r, failed) == NoRobot

DisconnectBody(t) ==
    LET ad == thr[t].ad
        r == adapters[ad].robot IN
    /\ thr[t].pc = "disconnect"
    /\ IF HasHandle(r)
       THEN \E failed \in BOOLEAN :
               /\ adapters' = Unlocked(ad, AfterDisconnect(r, failed))
               /\ thr' = [thr EXCEPT ![t] = Return(DevErr(thr[t], failed), Unit)]
       ELSE /\ adapters' = Unlocked(ad, r)
            /\ thr' = [thr EXCEPT ![t] = Return(thr[t], Unit)]

\* the mappings a read of the device can give: any joint value to the client
\* whose calls are examined; the callers that only test whether the state is
\* empty get the one mapping MeasuredState
Readings(t) ==
    IF t = Client THEN {[k \in Keys |-> v] : v \in 0..1} ELSE {MeasuredState}

\* get_state: generic reads robot.get_observation(), which refuses when
\* _is_connected is False; piper reads robot.bus.read()
GetStateBody(t) ==
    LET ad == thr[t].ad
        r == adapters[ad].robot IN
    /\ thr[t].pc = "get_state"
    /\ adapters' = Unlocked(ad, r)
    /\ IF ~r.held
       THEN thr' = [thr EXCEPT ![t] = Return(thr[t], EmptyState)]
       ELSE IF adapters[ad].kind = "generic" /\ ~r.flag
       THEN thr' = [thr EXCEPT ![t] = Raise(thr[t])]
       ELSE \/ \E m \in Readings(t) :
                  thr' = [thr EXCEPT ![t] = Return(DevErr(thr[t], FALSE), State(m))]
            \/ thr' = [thr EXCEPT ![t] = Raise(DevErr(thr[t], TRUE))]

\* send_action: robot.send_action(action) refuses when _is_connected is False
SendActionBody(t) ==
    LET ad == thr[t].ad
        r == adapters[ad].robot IN
    /\ thr[t].pc = "send_action"
    /\ adapters' = Unlocked(ad, r)
    /\ IF ~r.held
       THEN thr' = [thr EXCEPT ![t] = Return(thr[t], ActionRet(thr[t].arg))]
       ELSE IF ~r.flag
       THEN thr' = [thr EXCEPT ![t] = Raise(thr[t])]
       ELSE \/ thr' = [thr EXCEPT ![t] =
                         Return(DevErr(thr[t], FALSE), ActionRet(thr[t].arg))]
            \/ thr' = [thr EXCEPT ![t] = Raise(DevErr(thr[t], TRUE))]

\* emergency_stop: self._robot = None after the try block (piper) or in its
\* finally clause (generic)
AfterEmergencyStop_OnSuccess(r, failed) == IF failed THEN r ELSE NoRobot
AfterEmergencyStop(r, failed) == NoRobot

\* emergency_stop: generic disconnects the robot, piper writes DisableArm and
\* GripperCtrl to the bus; a failure of either is logged.  A PiperFollower
\* always has a bus object, so "self._robot and self._robot.bus" is the test
\* of the handle
EmergencyStopBody(t) ==
    LET ad == thr[t].ad
        r == adapters[ad].robot IN
    /\ thr[t].pc = "emergency_stop"
    /\ IF HasHandle(r)
       THEN \E failed \in BOOLEAN :
               /\ adapters' = Unlocked(ad, AfterEmergencyStop(r, failed))
               /\ thr' = [thr EXCEPT ![t] = Return(DevErr(thr[t], failed), Unit)]
       ELSE /\ adapters' = Unlocked(ad, r)
            /\ thr' = [thr EXCEPT ![t] = Return(thr[t], Unit)]

\* is_connected: "self._robot is not None"
IsConnectedFirst(t) ==
    /\ thr[t].pc = "is_connected"
    /\ IF adapters[thr[t].ad].robot.held
       THEN thr' = [thr EXCEPT ![t].pc = "is_connected.2"]
       ELSE thr' = [thr EXCEPT ![t] = Return(thr[t], Bool(FALSE))]
    /\ UNCHANGED adapters

\* is_connected: "and self._robot.is_connected"
IsConnectedSecond(t) ==
    LET r == adapters[thr[t].ad].robot IN
    /\ thr[t].pc = "is_connected.2"
    /\ IF r.held
       THEN thr' = [thr EXCEPT ![t] = Return(thr[t], Bool(RobotIsConnected(r)))]
       ELSE thr' = [thr EXCEPT ![t] = Raise(thr[t])]
    /\ UNCHANGED adapters

\* get_diagnostics: "if self._robot is None" (generic), "if not self._robot"
\* (piper), read without the lock
GetDiagnosticsFirst(t) ==
    /\ thr[t].pc = "get_diagnostics"
    /\ IF adapters[thr[t].ad].robot.held
       THEN thr' = [thr EXCEPT ![t].pc = "get_diagnostics.2"]
       ELSE thr' = [thr EXCEPT ![t] = Return(thr[t], Diag("disconnected"))]
    /\ UNCHANGED adapters

\* piper get_diagnostics: "except Exception as e: return {...}"
DiagFailure_Propagates(rec) == Raise(rec)
DiagFailure(rec) == Return(rec, DiagError)

\* get_diagnostics: generic reads is_calibrated with getattr and a default;
\* piper reads the low-speed info from the bus inside try / except Exception
GetDiagnosticsSecond(t) ==
    LET ad == thr[t].ad
        r == adapters[ad].robot IN
    /\ thr[t].pc = "get_diagnostics.2"
    /\ IF adapters[ad].kind = "generic"
       THEN thr' = [thr EXCEPT ![t] = Return(thr[t], Diag("connected"))]
       ELSE IF ~r.held
       THEN thr' = [thr EXCEPT ![t] = DiagFailure(thr[t])]
       ELSE \/ thr' = [thr EXCEPT ![t] =
                         Return(DevErr(thr[t], FALSE), Diag("connected"))]
            \/ thr' = [thr EXCEPT ![t] =
                         DiagFailure(DevErr(thr[t], TRUE))]
    /\ UNCHANGED adapters

\* get_action_names / get_state_names: piper returns the names of
\* MOTOR_ORDER whatever its state; generic tests "if self._robot is None"
GetNamesFirst(t) ==
    /\ thr[t].pc \in NameOps
    /\ IF adapters[thr[t].ad].kind = "piper"
       THEN thr' = [thr EXCEPT ![t] = Return(thr[t], Names(MotorNames))]
       ELSE IF adapters[thr[t].ad].robot.held
       THEN thr' = [thr EXCEPT ![t].pc = "get_names.2"]
       ELSE thr' = [thr EXCEPT ![t] = Return(thr[t], Names(<<>>))]
    /\ UNCHANGED adapters

\* generic get_action_names / get_state_names: the features of self._robot
\* are read inside try / except Exception, which returns []
GetNamesSecond(t) ==
    /\ thr[t].pc = "get_names.2"
    /\ IF adapters[thr[t].ad].robot.held
       THEN thr' = [thr EXCEPT ![t] = Return(thr[t], Names(MotorNames))]
       ELSE thr' = [thr EXCEPT ![t] = Return(thr[t], Names(<<>>))]
    /\ UNCHANGED adapters

\* stop: entered; "if self.is_connected" is evaluated first
BeginStop(rec, ad) ==
    [Begin(rec, "is_connected", ad, EmptyMap) EXCEPT
        !.caller = "stop",
        !.stop = IF rec.observed = "all"
                 THEN [NoStop EXCEPT !.calls = <<"is_connected">>,
                                     !.entry = adapters[ad].robot]
                 ELSE NoStop]

\* stop() returns
StopReturn(rec) ==
    [rec EXCEPT !.pc = "idle", !.caller = "none", !.op = "stop", !.ret = Unit]

\* stop: "if state:"
StateToSend_Always(ret) == ret.tag \in {"state", "empty"}
StateToSend(ret) == ret.tag = "state"

\* the observation of stop(): a call it makes, a value it got
Called(rec, op) ==
    [rec EXCEPT !.stop.calls = IF rec.observed = "all" THEN Append(@, op) ELSE @]
Noted(rec, ret) ==
    [rec EXCEPT !.stop.read = IF rec.observed = "all" THEN ret ELSE @]

\* stop: a call made by stop() has ended; an error of it leaves stop();
\* is_connected true is followed by get_state(), a non-empty state by
\* send_action(state)
StopResume(t) ==
    LET rec == thr[t] IN
    /\ rec.pc = "back"
    /\ thr' = [thr EXCEPT ![t] =
          IF rec.raised
          THEN [rec EXCEPT !.pc = "idle", !.caller = "none", !.op = "stop"]
          ELSE IF rec.op = "is_connected" /\ rec.ret.val
          THEN Called(Begin(rec, "get_state", rec.ad, EmptyMap), "get_state")
          ELSE IF rec.op = "get_state" /\ StateToSend(rec.ret)
          THEN Called(Noted(Begin(rec, "send_action", rec.ad, rec.ret.val), rec.ret),
                      "send_action")
          ELSE IF rec.op = "get_state"
          THEN StopReturn(Noted(rec, rec.ret))
          ELSE StopReturn(rec)]
    /\ UNCHANGED adapters

\* one step of the method thread t is in
MethodStep(t) ==
    \/ Acquire(t)
    \/ ConnectBuild(t)
    \/ ConnectBus(t)
    \/ ConnectFinish(t)
    \/ DisconnectBody(t)
    \/ GetStateBody(t)
    \/ SendActionBody(t)
    \/ EmergencyStopBody(t)
    \/ IsConnectedFirst(t)
    \/ IsConnectedSecond(t)
    \/ GetDiagnosticsFirst(t)
    \/ GetDiagnosticsSecond(t)
    \/ GetNamesFirst(t)
    \/ GetNamesSecond(t)
    \/ StopResume(t)

(***************************************************************************)
(* The application: MainWindow (E-STOP handlers), EStopButton, DevicesPage *)
(* (connect / disconnect) and TaskManager (tasks run by pool threads).     *)
(* The GUI thread runs one handler at a time; a handler that calls an      *)
(* adapter method waits inside it until the method returns.                *)
(***************************************************************************)
\* the task ids the application submits
TaskIds == {"robot_connect", "robot_disconnect"}

\* a Task: state none (not constructed), queued, running, done; ad the adapter
\* its callable works on; signals: slots of a page are connected to finished
\* and error; cancelled: _cancelled; log: the signals its run() has emitted;
\* early_cancel: cancel() was called before run() chose its last signal;
\* heard: the slots were connected when run() emitted its last signal
NoTask ==
    [state |-> "none", task_id |-> "none", ad |-> 0, signals |-> FALSE,
     cancelled |-> FALSE, early_cancel |-> FALSE, log |-> <<>>, heard |-> FALSE]

\* Task.__init__
NewTask(task_id, ad) == [NoTask EXCEPT !.state = "queued", !.task_id = task_id, !.ad = ad]

\* Task.run: "self.signals.started.emit(self.task_id)"
RunStarted(task) ==
    [task EXCEPT !.state = "running", !.log = Append(@, "started")]

\* Task.run: the signal emitted after fn returned or raised
TerminalSignal_IgnoreCancel(task, raised) ==
    IF raised THEN "error" ELSE "finished"

TerminalSignal(task, raised) ==
    IF raised THEN "error"
    ELSE IF ~task.cancelled THEN "finished" ELSE "cancelled"

RunEnded(task, raised) ==
    [task EXCEPT !.state = "done",
                 !.log = Append(@, TerminalSignal(task, raised)),
                 !.heard = task.signals]
\* the GUI thread: h the handler position, w the task it has just submitted
GuiNone == [h |-> "none", w |-> Free]
NoEStop == [ad |-> 0, was_connected |-> FALSE, connecting |-> FALSE, done |-> FALSE]

\* TeleopPage.__init__ / _setup_ui; outcome: what the last handler of the
\* page did: refused the start ("no_adapter", "not_connected"), "started" a
\* session, ended one ("click", "timeout"), polled ("tick_ok", "tick_error")
TeleopInit ==
    [robot_adapter |-> 0, running |-> FALSE, poll_timer |-> FALSE,
     start_btn |-> TRUE, stop_btn |-> FALSE, status |-> "Idle",
     outcome |-> "none"]

(***************************************************************************)
(* AdapterRegistry.  A dict is the sequence of its (key, value) entries in *)
(* insertion order.                                                        *)
(***************************************************************************)
Namespaces == {"robot", "camera", "teleop"}
\* type names given to the registry
TypeNames == {SchemaTypes[i] : i \in 1..Len(SchemaTypes)}
AdapterClasses == {"PiperRobotAdapter", "GenericRobotAdapter"}
\* Python's None where a class is expected
NoClass == "None"

\* "k in d"
KeyPresent_Never(d, k) == FALSE
KeyPresent(d, k) == \E i \in 1..Len(d) : d[i][1] = k

\* "d[k] = v": the entry of k is replaced where it is, or a new entry is added
DictSet(d, k, v) ==
    IF KeyPresent(d, k)
    THEN [i \in 1..Len(d) |-> IF d[i][1] = k THEN <<k, v>> ELSE d[i]]
    ELSE Append(d, <<k, v>>)

\* "d.get(k)"
DictGet(d, k) ==
    IF \E i \in 1..Len(d) : d[i][1] = k
    THEN d[CHOOSE i \in 1..Len(d) : d[i][1] = k][2]
    ELSE NoClass

\* "list(d.keys())"
DictKeys(d) == [i \in 1..Len(d) |-> d[i][1]]

\* the object __new__ makes: _robots = {}, _cameras = {}, _teleops = {}
NewRegistry == [robots |-> <<>>, cameras |-> <<>>, teleops |-> <<>>]

register_robot(self, type_name, adapter_cls) ==
    [self EXCEPT !.robots = DictSet(self.robots, type_name, adapter_cls)]
get_robot_adapter(self, type_name) == DictGet(self.robots, type_name)
list_robot_types(self) == DictKeys(self.robots)

register_camera(self, type_name, adapter_cls) ==
    [self EXCEPT !.cameras = DictSet(self.cameras, type_name, adapter_cls)]
get_camera_adapter(self, type_name) == DictGet(self.cameras, type_name)
list_camera_types(self) == DictKeys(self.cameras)

register_teleop(self, type_name, adapter_cls) ==
    [self EXCEPT !.teleops = DictSet(self.teleops, type_name, adapter_cls)]
get_teleop_adapter(self, type_name) == DictGet(self.teleops, type_name)
list_teleop_types(self) == DictKeys(self.teleops)

\* the three methods of one namespace
Register(ns, self, type_name, adapter_cls) ==
    CASE ns = "robot" -> register_robot(self, type_name, adapter_cls)
      [] ns = "camera" -> register_camera(self, type_name, adapter_cls)
      [] ns = "teleop" -> register_teleop(self, type_name, adapter_cls)
GetAdapter(ns, self, type_name) ==
    CASE ns = "robot" -> get_robot_adapter(self, type_name)
      [] ns = "camera" -> get_camera_adapter(self, type_name)
      [] ns = "teleop" -> get_teleop_adapter(self, type_name)
ListTypes(ns, self) ==
    CASE ns = "robot" -> list_robot_types(self)
      [] ns = "camera" -> list_camera_types(self)
      [] ns = "teleop" -> list_teleop_types(self)

\* the class before the first AdapterRegistry(): _instance = None
NoRegistry == [instance |-> 0, objects |-> <<>>]
\* nothing has been called yet.  latest: per namespace and type name the
\* class of the most recent register call (NoClass if there was none);
\* refs: the objects AdapterRegistry() has returned; made: how many times it
\* was called, counted up to two; overwrote: a register call replaced a class
\* by another one
NoCall ==
    [op |-> "none", ns |-> "none", id |-> "none", ret |-> NoClass,
     listed |-> <<>>, ref |-> 0,
     latest |-> [ns \in Namespaces |-> [id \in TypeNames |-> NoClass]],
     refs |-> {}, made |-> 0, overwrote |-> FALSE]

\* __new__: "if cls._instance is None"
InstanceMissing == registry.instance = 0

\* AdapterRegistry()
Construct ==
    /\ InstanceMissing => Len(registry.objects) < MaxRegistries
    /\ LET made == IF InstanceMissing
                   THEN [instance |-> Len(registry.objects) + 1,
                         objects |-> Append(registry.objects, NewRegistry)]
                   ELSE registry
       IN /\ registry' = made
          /\ reg' = [reg EXCEPT !.op = "construct", !.ns = "none", !.id = "none",
                                !.ret = NoClass, !.listed = <<>>,
                                !.ref = made.instance,
                                !.refs = reg.refs \cup {made.instance},
                                !.made = Min(reg.made + 1, 2)]

\* register_robot / register_camera / register_teleop on a constructed registry
RegisterCall(ref, ns, type_name, adapter_cls) ==
    /\ ref \in reg.refs
    /\ registry' = [registry EXCEPT !.objects[ref] =
                       Register(ns, registry.objects[ref], type_name, adapter_cls)]
    /\ reg' = [reg EXCEPT !.op = "register", !.ns = ns, !.id = type_name,
                          !.ret = NoClass, !.listed = <<>>, !.ref = ref,
                          !.latest[ns][type_name] = adapter_cls,
                          !.overwrote =
                              \/ reg.overwrote
                              \/ reg.latest[ns][type_name] \notin {NoClass, adapter_cls}]

\* get_robot_adapter / get_camera_adapter / get_teleop_adapter
GetCall(ref, ns, type_name) ==
    /\ ref \in reg.refs
    /\ reg' = [reg EXCEPT !.op = "get", !.ns = ns, !.id = type_name,
                          !.ret = GetAdapter(ns, registry.objects[ref], type_name),
                          !.listed = <<>>, !.ref = ref]
    /\ UNCHANGED registry

\* list_robot_types / list_camera_types / list_teleop_types
ListCall(ref, ns) ==
    /\ ref \in reg.refs
    /\ reg' = [reg EXCEPT !.op = "list", !.ns = ns, !.id = "none",
                          !.ret = NoClass,
                          !.listed = ListTypes(ns, registry.objects[ref]),
                          !.ref = ref]
    /\ UNCHANGED registry

\* MainWindow.__init__: "for rtype in self._schema_loader.list_types("robot")",
\* from the i-th type on
RECURSIVE RegisterDefaults(_, _)
RegisterDefaults(self, i) ==
    IF i > Len(SchemaTypes) THEN self
    ELSE RegisterDefaults(
             IF \E j \in 1..Len(list_robot_types(self)) :
                    list_robot_types(self)[j] = SchemaTypes[i]
             THEN self
             ELSE register_robot(self, SchemaTypes[i], "GenericRobotAdapter"),
             i + 1)

\* MainWindow.__init__: the registry after its population
StartupRegistry ==
    [instance |-> 1,
     objects |-> <<RegisterDefaults(
                      register_robot(NewRegistry, "piper_follower", "PiperRobotAdapter"),
                      1)>>]

\* the observation of the registry calls of MainWindow.__init__
StartupCalls ==
    [NoCall EXCEPT !.refs = {1}, !.ref = 1, !.made = 1,
                   !.latest["robot"] =
                       [id \in TypeNames |->
                           get_robot_adapter(StartupRegistry.objects[1], id)]]

\* MainWindow.__init__: the pages and services as constructed
WindowInit ==
    /\ estop_active = FALSE
    /\ page = [current_adapter |-> 0, connect_btn |-> TRUE,
               disconnect_btn |-> FALSE, status |-> "Disconnected",
               poll_timer |-> FALSE]
    /\ tasks = [w \in Workers |-> NoTask]
    /\ task_index = [id \in TaskIds |-> Free]
    /\ gui_events = <<>>
    /\ gui = GuiNone
    /\ es = NoEStop
    /\ teleop = TeleopInit

\* _build_config has not been called
NoBuild ==
    [done |-> FALSE, raised |-> FALSE, known |-> FALSE,
     params |-> [plain |-> EmptyMap, cameras |-> [kind |-> "absent", entries |-> <<>>]],
     passed |-> [flat |-> EmptyMap, nested |-> EmptyMap, cameras |-> <<>>]]

\* BaseCameraAdapter.__init__: "self._fps_ts = []"; frames: the time of every
\* _record_frame so far; ret: what the last fps_stats returned, the rate in
\* tenths; at: when it was called; seen: how many frames had been recorded
\* by then
NewCamera ==
    [fps_ts |-> <<>>, frames |-> <<>>, called |-> FALSE, at |-> 0, seen |-> 0,
     ret |-> [measured_fps |-> 0, frame_count |-> 0]]

\* the population of the registry has ended
StartupDone == [pc |-> "done", types |-> SchemaTypes, i |-> Len(SchemaTypes) + 1]

\* MainWindow.__init__ with the registry it populates
AppInit ==
    /\ WindowInit
    /\ registry = StartupRegistry
    /\ reg = StartupCalls
    /\ startup = StartupDone
    /\ bc = NoBuild
    /\ cam = NewCamera

\* the GUI thread is in its event loop
GuiIdle == gui.h = "none" /\ thr[Gui].pc = "idle"

\* the Task objects not yet used
FreeWorkers == {w \in Workers : tasks[w].state = "none"}
\* the pool thread the next submitted task runs on
NextWorker == CHOOSE w \in FreeWorkers : \A v \in FreeWorkers : w[2] <= v[2]

\* TaskManager.submit: the Task is constructed, recorded under its id and
\* handed to the pool
submit(task_id, ad) ==
    /\ tasks' = [tasks EXCEPT ![NextWorker] = NewTask(task_id, ad)]
    /\ task_index' = [task_index EXCEPT ![task_id] = NextWorker]

\* TaskManager.cancel
cancel(task_id) ==
    /\ IF task_index[task_id] # Free
       THEN tasks' = [tasks EXCEPT ![task_index[task_id]].cancelled = TRUE,
                                   ![task_index[task_id]].early_cancel =
                                       @ \/ tasks[task_index[task_id]].state # "done"]
       ELSE UNCHANGED tasks
    /\ UNCHANGED task_index

\* a connect task that is queued (do_connect will read _current_adapter when
\* it runs) or is running on adapter ad
ConnectPending(ad) ==
    \E w \in Workers :
       /\ tasks[w].task_id = "robot_connect"
       /\ \/ tasks[w].state = "queued"
          \/ tasks[w].state = "running" /\ tasks[w].ad = ad

\* _on_estop: "adapter.is_connected" decides whether emergency_stop is called
EStopWanted_Negated(ret) == ~ret.val
EStopWanted(ret) == ret.val

\* EStopButton._on_click with the button going down, MainWindow._on_estop up
\* to the evaluation of adapter.is_connected
EStopTrigger ==
    /\ GuiIdle
    /\ ~estop_active
    /\ estop_active' = TRUE
    /\ set_e_stop(TRUE)
    /\ IF page.current_adapter = 0
       THEN /\ es' = [NoEStop EXCEPT !.done = TRUE]
            /\ UNCHANGED <<thr, gui>>
       ELSE /\ es' = [ad |-> page.current_adapter,
                      was_connected |->
                          IsConnected(adapters[page.current_adapter].robot),
                      connecting |-> ConnectPending(page.current_adapter),
                      done |-> FALSE]
            /\ thr' = [thr EXCEPT ![Gui] =
                          Begin(thr[Gui], "is_connected", page.current_adapter,
                                EmptyMap)]
            /\ gui' = [h |-> "estop.check", w |-> Free]
    /\ UNCHANGED <<adapters, page, tasks, task_index, gui_events, registry, reg, startup, bc, cam>>

\* _on_estop: is_connected has been evaluated; emergency_stop is called if it
\* was true; an error of is_connected leaves the handler
EStopChecked ==
    /\ gui.h = "estop.check"
    /\ thr[Gui].pc = "idle"
    /\ IF ~thr[Gui].raised /\ EStopWanted(thr[Gui].ret)
       THEN /\ thr' = [thr EXCEPT ![Gui] =
                          Begin(thr[Gui], "emergency_stop", es.ad, EmptyMap)]
            /\ gui' = [h |-> "estop.stop", w |-> Free]
            /\ UNCHANGED es
       ELSE /\ gui' = GuiNone
            /\ es' = [es EXCEPT !.done = TRUE]
            /\ UNCHANGED thr
    /\ UNCHANGED <<filterVars, filterObs, adapters, estop_active, page, tasks, task_index,
                   gui_events, registry, reg, startup, bc, cam>>

\* _on_estop: emergency_stop has returned (an error of it is logged)
EStopStopped ==
    /\ gui.h = "estop.stop"
    /\ thr[Gui].pc = "idle"
    /\ gui' = GuiNone
    /\ es' = [es EXCEPT !.done = TRUE]
    /\ UNCHANGED <<filterVars, filterObs, adapterVars, estop_active, page,
                   tasks, task_index, gui_events, registry, reg, startup, bc, cam>>

\* EStopButton._on_click with the button going up, MainWindow._on_estop_release
EStopRelease ==
    /\ GuiIdle
    /\ estop_active
    /\ estop_active' = FALSE
    /\ set_e_stop(FALSE)
    /\ UNCHANGED <<adapterVars, page, tasks, task_index, gui_events, gui, es, registry, reg, startup, bc, cam>>

\* _on_connect: "... or GenericRobotAdapter"
OrGeneric(adapter_cls) ==
    IF adapter_cls = NoClass THEN "GenericRobotAdapter" ELSE adapter_cls

\* the adapter an adapter class constructs
KindOf(adapter_cls) ==
    IF adapter_cls = "PiperRobotAdapter" THEN "piper" ELSE "generic"

\* _on_connect: "self._connect_btn.setEnabled(False)"
ButtonWhileConnecting_Enabled == TRUE
ButtonWhileConnecting == FALSE

\* DevicesPage._on_connect, confirmed by the user, up to TaskManager.submit:
\* a new adapter of the class registered for the selected type, or of the
\* generic class, becomes the current adapter; dtype goes into the params of
\* the connect that is submitted for it
OnConnect(dtype) ==
    /\ GuiIdle
    /\ page.connect_btn
    /\ Len(adapters) < MaxAdapters
    /\ FreeWorkers # {}
    /\ LET adapter_cls ==
               OrGeneric(get_robot_adapter(registry.objects[registry.instance], dtype))
       IN adapters' = Append(adapters,
                             [NewAdapter(KindOf(adapter_cls)) EXCEPT !.robot_type = dtype])
    /\ page' = [page EXCEPT !.current_adapter = Len(adapters) + 1,
                            !.connect_btn = ButtonWhileConnecting,
                            !.status = "Connecting..."]
    /\ submit("robot_connect", 0)
    /\ gui' = [h |-> "connect.signals", w |-> NextWorker]
    /\ UNCHANGED <<filterVars, filterObs, thr, estop_active, gui_events, es, registry, reg, startup, bc, cam>>

\* DevicesPage._on_connect after submit: finished and error are connected to
\* _on_connected and _on_connect_error
OnConnectSignals ==
    /\ gui.h = "connect.signals"
    /\ tasks' = [tasks EXCEPT ![gui.w].signals = TRUE]
    /\ gui' = GuiNone
    /\ UNCHANGED <<filterVars, filterObs, adapterVars, estop_active, page,
                   task_index, gui_events, es, registry, reg, startup, bc, cam>>

\* _on_disconnect: "self._poll_timer.stop()"
TimerAfterDisconnect_Kept == page.poll_timer
TimerAfterDisconnect == FALSE

\* DevicesPage._on_disconnect
OnDisconnect ==
    /\ GuiIdle
    /\ page.disconnect_btn
    /\ IF page.current_adapter # 0
       THEN /\ FreeWorkers # {}
            /\ submit("robot_disconnect", page.current_adapter)
       ELSE UNCHANGED <<tasks, task_index>>
    /\ page' = [page EXCEPT !.poll_timer = TimerAfterDisconnect,
                            !.status = "Disconnected",
                            !.connect_btn = TRUE,
                            !.disconnect_btn = FALSE]
    /\ UNCHANGED <<filterVars, filterObs, adapterVars, estop_active,
                   gui_events, gui, es, registry, reg, startup, bc, cam>>

\* Task.run on a pool thread: started is emitted and fn is entered;
\* do_connect reads self._current_adapter when it runs
TaskStart(w) ==
    /\ tasks[w].state = "queued"
    /\ LET ad == IF tasks[w].task_id = "robot_connect"
                 THEN page.current_adapter ELSE tasks[w].ad
           op == IF tasks[w].task_id = "robot_connect"
                 THEN "connect" ELSE "disconnect"
       IN /\ tasks' = [tasks EXCEPT ![w] = [RunStarted(tasks[w]) EXCEPT !.ad = ad]]
          /\ thr' = [thr EXCEPT ![w] = Begin(ResultThread, op, ad, EmptyMap)]
    /\ UNCHANGED <<filterVars, filterObs, adapters, estop_active, page,
                   task_index, gui_events, gui, es, registry, reg, startup, bc, cam>>

\* Task.run: fn has returned or raised; finished, cancelled or error is
\* emitted; finished and error are queued for the GUI thread if slots of the
\* page are connected to them.  The pool thread is left with run(): of the
\* call it made only whether it raised is kept
TaskEnd(w) ==
    /\ tasks[w].state = "running"
    /\ thr[w].pc = "idle"
    /\ tasks' = [tasks EXCEPT ![w] = RunEnded(tasks[w], thr[w].raised)]
    /\ gui_events' =
          IF tasks[w].signals /\ TerminalSignal(tasks[w], thr[w].raised) # "cancelled"
          THEN Append(gui_events, TerminalSignal(tasks[w], thr[w].raised))
          ELSE gui_events
    /\ thr' = [thr EXCEPT ![w] = [IdleThread EXCEPT !.raised = thr[w].raised]]
    /\ UNCHANGED <<filterVars, filterObs, adapters, estop_active, page,
                   task_index, gui, es, registry, reg, startup, bc, cam>>

\* DevicesPage._on_connected
OnConnected ==
    /\ GuiIdle
    /\ gui_events # <<>>
    /\ Head(gui_events) = "finished"
    /\ gui_events' = Tail(gui_events)
    /\ page' = [page EXCEPT !.status = "Connected",
                            !.connect_btn = FALSE,
                            !.disconnect_btn = TRUE,
                            !.poll_timer = TRUE]
    /\ UNCHANGED <<filterVars, filterObs, adapterVars, estop_active, tasks, task_index,
                   gui, es, registry, reg, startup, bc, cam>>

\* DevicesPage._on_connect_error
OnConnectError ==
    /\ GuiIdle
    /\ gui_events # <<>>
    /\ Head(gui_events) = "error"
    /\ gui_events' = Tail(gui_events)
    /\ page' = [page EXCEPT !.status = "Connection Failed",
                            !.connect_btn = TRUE]
    /\ UNCHANGED <<filterVars, filterObs, adapterVars, estop_active, tasks, task_index,
                   gui, es, registry, reg, startup, bc, cam>>

\* the GUI thread leaves a handler of the state-polling timer
PollDone ==
    /\ gui' = GuiNone
    /\ thr' = [thr EXCEPT ![Gui] = IdleThread]

\* DevicesPage._poll_state, a timeout of the running _poll_timer:
\* "if self._current_adapter and self._current_adapter.is_connected"
PollState ==
    /\ GuiIdle
    /\ page.poll_timer
    /\ IF page.current_adapter = 0
       THEN UNCHANGED <<thr, gui>>
       ELSE /\ thr' = [thr EXCEPT ![Gui] =
                          Begin(thr[Gui], "is_connected", page.current_adapter,
                                EmptyMap)]
            /\ gui' = [h |-> "poll.check", w |-> Free]
    /\ UNCHANGED <<filterVars, filterObs, adapters, estop_active, page, tasks,
                   task_index, gui_events, es, registry, reg, startup, bc, cam>>

\* _poll_state: is_connected has been evaluated (an error of it leaves the
\* handler); if true, get_state is called
PollChecked ==
    /\ gui.h = "poll.check"
    /\ thr[Gui].pc = "idle"
    /\ IF ~thr[Gui].raised /\ thr[Gui].ret.val
       THEN /\ thr' = [thr EXCEPT ![Gui] =
                          Begin(thr[Gui], "get_state", page.current_adapter,
                                EmptyMap)]
            /\ gui' = [h |-> "poll.state", w |-> Free]
       ELSE PollDone
    /\ UNCHANGED <<filterVars, filterObs, adapters, estop_active, page, tasks,
                   task_index, gui_events, es, registry, reg, startup, bc, cam>>

\* _poll_state: get_state has returned, get_diagnostics is called; an error
\* of get_state is shown in the state text
PollStateRead ==
    /\ gui.h = "poll.state"
    /\ thr[Gui].pc = "idle"
    /\ IF ~thr[Gui].raised
       THEN /\ thr' = [thr EXCEPT ![Gui] =
                          Begin(thr[Gui], "get_diagnostics",
                                page.current_adapter, EmptyMap)]
            /\ gui' = [h |-> "poll.diag", w |-> Free]
       ELSE PollDone
    /\ UNCHANGED <<filterVars, filterObs, adapters, estop_active, page, tasks,
                   task_index, gui_events, es, registry, reg, startup, bc, cam>>

\* _poll_state: get_diagnostics has returned
PollDiagRead ==
    /\ gui.h = "poll.diag"
    /\ thr[Gui].pc = "idle"
    /\ PollDone
    /\ UNCHANGED <<filterVars, filterObs, adapters, estop_active, page, tasks,
                   task_index, gui_events, es, registry, reg, startup, bc, cam>>

\* a thread advances inside the adapter method it has entered; the GUI
\* thread and the tasks call connect, disconnect, is_connected, get_state,
\* get_diagnostics and emergency_stop
AdapterStep(t) ==
    /\ \/ Acquire(t)
       \/ ConnectBuild(t)
       \/ ConnectBus(t)
       \/ ConnectFinish(t)
       \/ DisconnectBody(t)
       \/ GetStateBody(t)
       \/ EmergencyStopBody(t)
       \/ IsConnectedFirst(t)
       \/ IsConnectedSecond(t)
       \/ GetDiagnosticsFirst(t)
       \/ GetDiagnosticsSecond(t)
    /\ UNCHANGED <<filterVars, filterObs, appVars, teleopVars>>

(***************************************************************************)
(* SpecApp: the application from start-up, any user actions                *)
(***************************************************************************)
InitApp ==
    /\ now = 0
    /\ joint_limits = NoLimits
    /\ max_velocity = DefaultMaxVelocity
    /\ deadzone = DefaultDeadzone
    /\ timeout_ms = TimeoutMs
    /\ SafetyFilterInit
    /\ FilterObsInit
    /\ adapters = <<>>
    /\ thr = [t \in Threads |-> IdleThread]
    /\ AppInit

NextApp ==
    \/ EStopTrigger /\ UNCHANGED teleopVars
    \/ EStopChecked /\ UNCHANGED teleopVars
    \/ EStopStopped /\ UNCHANGED teleopVars
    \/ EStopRelease /\ UNCHANGED teleopVars
    \/ \E dtype \in TypeNames \cup {NoType} : OnConnect(dtype) /\ UNCHANGED teleopVars
    \/ OnConnectSignals /\ UNCHANGED teleopVars
    \/ OnDisconnect /\ UNCHANGED teleopVars
    \/ OnConnected /\ UNCHANGED teleopVars
    \/ OnConnectError /\ UNCHANGED teleopVars
    \/ PollState /\ UNCHANGED teleopVars
    \/ PollChecked /\ UNCHANGED teleopVars
    \/ PollStateRead /\ UNCHANGED teleopVars
    \/ PollDiagRead /\ UNCHANGED teleopVars
    \/ \E w \in Workers : TaskStart(w) /\ UNCHANGED teleopVars
    \/ \E w \in Workers : TaskEnd(w) /\ UNCHANGED teleopVars
    \/ \E t \in Workers \cup {Gui} : AdapterStep(t) /\ UNCHANGED teleopVars

SpecApp == InitApp /\ [][NextApp]_vars

(***************************************************************************)
(* TeleopPage: the control session.  Its handlers run on the GUI thread;   *)
(* a handler that calls an adapter method waits inside it.                 *)
(***************************************************************************)
\* the timeouts the user selects in the page (the default and one second)
Timeouts == {TimeoutMs, MsPerSecond}

\* the GUI thread leaves a handler of the teleop page
HandlerDone ==
    /\ gui' = GuiNone
    /\ thr' = [thr EXCEPT ![Gui] = IdleThread]

\* TeleopPage.set_robot_adapter
SetRobotAdapter(ad) ==
    /\ GuiIdle
    /\ teleop' = [teleop EXCEPT !.robot_adapter = ad]
    /\ UNCHANGED <<filterVars, filterObs, adapterVars, appVars>>

\* TeleopPage._update_safety: the spin boxes of max velocity and dead zone
\* hold their initial values, the timeout box the value selected
UpdateSafety(timeout) ==
    /\ GuiIdle
    /\ max_velocity' = DefaultMaxVelocity
    /\ deadzone' = DefaultDeadzone
    /\ timeout_ms' = timeout
    /\ UNCHANGED <<joint_limits, last_action, last_input_time, enabled,
                   e_stopped, now>>
    /\ UNCHANGED <<filterObs, adapterVars, appVars, teleopVars>>

\* _on_start: the refusal
StartRefused(why) == [teleop EXCEPT !.status = "Error", !.outcome = why]

\* TeleopPage._on_start up to the evaluation of is_connected
OnStart ==
    /\ GuiIdle
    /\ teleop.start_btn
    /\ IF teleop.robot_adapter = 0
       THEN /\ teleop' = StartRefused("no_adapter")
            /\ UNCHANGED <<thr, gui>>
       ELSE /\ thr' = [thr EXCEPT ![Gui] =
                          Begin(ResultThread, "is_connected", teleop.robot_adapter,
                                EmptyMap)]
            /\ gui' = [h |-> "start.check", w |-> Free]
            /\ UNCHANGED teleop
    /\ UNCHANGED <<filterVars, filterObs, adapters, estop_active, page, tasks,
                   task_index, gui_events, es, registry, reg, startup, bc, cam>>

\* _on_start: "not self._robot_adapter.is_connected" refuses the start
StartAllowed_Always(ret) == TRUE
StartAllowed(ret) == ret.val

\* _on_start: is_connected has been evaluated (an error of it leaves the
\* handler); the session starts or the start is refused
OnStartChecked ==
    /\ gui.h = "start.check"
    /\ thr[Gui].pc = "idle"
    /\ HandlerDone
    /\ IF thr[Gui].raised
       THEN UNCHANGED <<filterVars, filterObs, teleop>>
       ELSE IF ~StartAllowed(thr[Gui].ret)
       THEN /\ teleop' = StartRefused("not_connected")
            /\ UNCHANGED <<filterVars, filterObs>>
       ELSE /\ reset
            /\ teleop' = [teleop EXCEPT !.running = TRUE,
                                        !.start_btn = FALSE,
                                        !.stop_btn = TRUE,
                                        !.status = "Running",
                                        !.poll_timer = TRUE,
                                        !.outcome = "started"]
    /\ UNCHANGED <<adapters, estop_active, page, tasks, task_index,
                   gui_events, es, registry, reg, startup, bc, cam>>

\* _on_stop: the buttons and the status at its end
StopFinished(t) ==
    [t EXCEPT !.start_btn = TRUE, !.stop_btn = FALSE, !.status = "Stopped"]

\* _on_stop: "self._running = False", "self._poll_timer.stop()"
SessionEnded_StillRunning(t, by) == [t EXCEPT !.outcome = by]
SessionEnded(t, by) ==
    [t EXCEPT !.running = FALSE, !.poll_timer = FALSE, !.outcome = by]

\* _on_stop up to the evaluation of is_connected: the running flag is
\* cleared and the timer stopped
OnStopBegin(by) ==
    LET stopped == SessionEnded(teleop, by) IN
    IF teleop.robot_adapter = 0
    THEN /\ teleop' = StopFinished(stopped)
         /\ UNCHANGED <<thr, gui>>
    ELSE /\ teleop' = stopped
         /\ thr' = [thr EXCEPT ![Gui] =
                       Begin(ResultThread, "is_connected", teleop.robot_adapter,
                             EmptyMap)]
         /\ gui' = [h |-> "stop.check", w |-> Free]

\* TeleopPage._on_stop, the Stop button clicked
OnStop ==
    /\ GuiIdle
    /\ teleop.stop_btn
    /\ OnStopBegin("click")
    /\ UNCHANGED <<filterVars, filterObs, adapters, estop_active, page, tasks,
                   task_index, gui_events, es, registry, reg, startup, bc, cam>>

\* _on_stop: is_connected has been evaluated (an error of it leaves the
\* handler); if true, the adapter's stop() is called
OnStopChecked ==
    /\ gui.h = "stop.check"
    /\ thr[Gui].pc = "idle"
    /\ IF thr[Gui].raised
       THEN HandlerDone /\ UNCHANGED teleop
       ELSE IF thr[Gui].ret.val
       THEN /\ thr' = [thr EXCEPT ![Gui] = BeginStop(ResultThread, teleop.robot_adapter)]
            /\ gui' = [h |-> "stop.stop", w |-> Free]
            /\ UNCHANGED teleop
       ELSE HandlerDone /\ teleop' = StopFinished(teleop)
    /\ UNCHANGED <<filterVars, filterObs, adapters, estop_active, page, tasks,
                   task_index, gui_events, es, registry, reg, startup, bc, cam>>

\* _on_stop: stop() has returned (an error of it is logged)
OnStopStopped ==
    /\ gui.h = "stop.stop"
    /\ thr[Gui].pc = "idle"
    /\ HandlerDone
    /\ teleop' = StopFinished(teleop)
    /\ UNCHANGED <<filterVars, filterObs, adapters, estop_active, page, tasks,
                   task_index, gui_events, es, registry, reg, startup, bc, cam>>

\* _poll_teleop: "if self._safety.check_timeout()" stops the session
TimedOut_Never(value) == FALSE
TimedOut(value) == value

\* TeleopPage._poll_teleop, a timeout of the running _poll_timer, up to the
\* call of get_state
PollTeleop ==
    /\ GuiIdle
    /\ teleop.poll_timer
    /\ IF ~teleop.running \/ teleop.robot_adapter = 0
       THEN UNCHANGED <<filterVars, filterObs, thr, gui, teleop>>
       ELSE /\ check_timeout
            /\ IF TimedOut(CheckTimeoutValue)
               THEN OnStopBegin("timeout")
               ELSE /\ thr' = [thr EXCEPT ![Gui] =
                                  Begin(ResultThread, "get_state",
                                        teleop.robot_adapter, EmptyMap)]
                    /\ gui' = [h |-> "tick.state", w |-> Free]
                    /\ UNCHANGED teleop
    /\ UNCHANGED <<adapters, estop_active, page, tasks, task_index,
                   gui_events, es, registry, reg, startup, bc, cam>>

\* _poll_teleop: the session after a tick whose get_state raised
AfterBadTick_Stopped(t) == [t EXCEPT !.running = FALSE, !.poll_timer = FALSE]
AfterBadTick(t) == t

\* _poll_teleop: get_state has returned and the state is displayed, or it
\* has raised and the error is logged
PollTeleopRead ==
    /\ gui.h = "tick.state"
    /\ thr[Gui].pc = "idle"
    /\ HandlerDone
    /\ teleop' = IF thr[Gui].raised
                 THEN [AfterBadTick(teleop) EXCEPT !.outcome = "tick_error"]
                 ELSE [teleop EXCEPT !.outcome = "tick_ok"]
    /\ UNCHANGED <<filterVars, filterObs, adapters, estop_active, page, tasks,
                   task_index, gui_events, es, registry, reg, startup, bc, cam>>

\* the GUI thread advances inside is_connected, get_state or stop()
GuiAdapterStep ==
    /\ \/ Acquire(Gui)
       \/ GetStateBody(Gui)
       \/ SendActionBody(Gui)
       \/ IsConnectedFirst(Gui)
       \/ IsConnectedSecond(Gui)
       \/ StopResume(Gui)
    /\ UNCHANGED <<filterVars, filterObs, appVars, teleopVars>>

\* the owner's thread advances inside connect or disconnect
OwnerAdapterStep ==
    /\ \/ Acquire(Client)
       \/ ConnectBuild(Client)
       \/ ConnectBus(Client)
       \/ ConnectFinish(Client)
       \/ DisconnectBody(Client)
    /\ UNCHANGED <<filterVars, filterObs, appVars, teleopVars>>

\* the owner of the adapter calls connect or disconnect
OwnerCall(op) ==
    /\ thr[Client].pc = "idle"
    /\ thr' = [thr EXCEPT ![Client] = Begin(UnobservedThread, op, 1, EmptyMap)]
    /\ UNCHANGED <<adapters, filterVars, filterObs, appVars, teleopVars>>

(***************************************************************************)
(* SpecTeleop: the teleop page with the SafetyFilter and one adapter that  *)
(* its owner connects and disconnects at any moment; SpecTeleopFair adds   *)
(* that the GUI thread and the owner's thread keep running, that the       *)
(* running timer keeps firing, and that the GUI thread gets the adapter    *)
(* lock if the lock is free again and again                                *)
(***************************************************************************)
InitTeleop ==
    /\ now = 0
    /\ joint_limits = NoLimits
    /\ max_velocity = DefaultMaxVelocity
    /\ deadzone = DefaultDeadzone
    /\ timeout_ms = TimeoutMs
    /\ SafetyFilterInit
    /\ FilterObsInit
    /\ \E kind \in Kinds : adapters = <<NewAdapter(kind)>>
    /\ thr = [t \in Threads |-> IdleThread]
    /\ AppInit

TimeStep == Advance /\ UNCHANGED <<adapterVars, appVars, teleopVars>>

NextTeleop ==
    \/ SetRobotAdapter(1)
    \/ \E timeout \in Timeouts : UpdateSafety(timeout)
    \/ OnStart
    \/ OnStartChecked
    \/ OnStop
    \/ OnStopChecked
    \/ OnStopStopped
    \/ PollTeleop
    \/ PollTeleopRead
    \/ \E op \in {"connect", "disconnect"} : OwnerCall(op)
    \/ GuiAdapterStep
    \/ OwnerAdapterStep
    \/ TimeStep

SpecTeleop == InitTeleop /\ [][NextTeleop]_vars

SpecTeleopFair ==
    /\ SpecTeleop
    /\ WF_vars(PollTeleop)
    /\ WF_vars(PollTeleopRead)
    /\ WF_vars(OnStopChecked)
    /\ WF_vars(OnStopStopped)
    /\ SF_vars(GuiAdapterStep)
    /\ WF_vars(OwnerAdapterStep)

(***************************************************************************)
(* SpecSession: the application with its teleop page.  The page is handed  *)
(* the current adapter of the devices page through set_robot_adapter; the  *)
(* user presses and releases E-STOP, connects robots of the type the combo *)
(* box shows first, disconnects, starts and stops sessions in any order.   *)
(* The clock stands still, so no session runs into the watchdog            *)
(***************************************************************************)
\* DevicesPage._type_combo.currentData(): the first robot type
SessionTypes == {SchemaTypes[1]}

\* set_robot_adapter called with DevicesPage.get_current_adapter()
HandOver ==
    /\ page.current_adapter # 0
    /\ SetRobotAdapter(page.current_adapter)

\* a thread advances inside the adapter method it has entered: the tasks in
\* connect and disconnect, the GUI thread in is_connected, emergency_stop,
\* get_state and stop()
SessionAdapterStep(t) ==
    /\ \/ Acquire(t)
       \/ ConnectBuild(t)
       \/ ConnectBus(t)
       \/ ConnectFinish(t)
       \/ DisconnectBody(t)
       \/ GetStateBody(t)
       \/ SendActionBody(t)
       \/ EmergencyStopBody(t)
       \/ IsConnectedFirst(t)
       \/ IsConnectedSecond(t)
       \/ StopResume(t)
    /\ UNCHANGED <<filterVars, filterObs, appVars, teleopVars>>

NextSession ==
    \/ EStopTrigger /\ UNCHANGED teleopVars
    \/ EStopChecked /\ UNCHANGED teleopVars
    \/ EStopStopped /\ UNCHANGED teleopVars
    \/ EStopRelease /\ UNCHANGED teleopVars
    \/ \E dtype \in SessionTypes : OnConnect(dtype) /\ UNCHANGED teleopVars
    \/ OnConnectSignals /\ UNCHANGED teleopVars
    \/ OnDisconnect /\ UNCHANGED teleopVars
    \/ OnConnected /\ UNCHANGED teleopVars
    \/ OnConnectError /\ UNCHANGED teleopVars
    \/ \E w \in Workers : TaskStart(w) /\ UNCHANGED teleopVars
    \/ \E w \in Workers : TaskEnd(w) /\ UNCHANGED teleopVars
    \/ HandOver
    \/ OnStart
    \/ OnStartChecked
    \/ OnStop
    \/ OnStopChecked
    \/ OnStopStopped
    \/ PollTeleop
    \/ PollTeleopRead
    \/ \E t \in Workers \cup {Gui} : SessionAdapterStep(t)

SpecSession == InitApp /\ [][NextSession]_vars

(***************************************************************************)
(* SpecTask: the TaskManager alone; a client submits callables that return *)
(* or raise and cancels tasks by id at any moment                          *)
(***************************************************************************)
\* the client calls TaskManager.submit(task_id, fn) and gets the Task back
SubmitCall(task_id) ==
    /\ thr[Client].pc = "idle"
    /\ FreeWorkers # {}
    /\ submit(task_id, 0)
    /\ thr' = [thr EXCEPT ![Client] =
                  [IdleThread EXCEPT !.op = "submit", !.prev = thr[Client].op]]
    /\ UNCHANGED <<adapters, estop_active, page, gui_events, gui, es, registry, reg, startup, bc, cam>>

\* the client calls TaskManager.cancel(task_id)
CancelCall(task_id) ==
    /\ thr[Client].pc = "idle"
    /\ cancel(task_id)
    /\ thr' = [thr EXCEPT ![Client] =
                  [IdleThread EXCEPT !.op = "cancel", !.prev = thr[Client].op]]
    /\ UNCHANGED <<adapters, estop_active, page, gui_events, gui, es, registry, reg, startup, bc, cam>>

\* Task.run on a pool thread: started is emitted and fn is entered
TaskRun(w) ==
    /\ tasks[w].state = "queued"
    /\ tasks' = [tasks EXCEPT ![w] = RunStarted(tasks[w])]
    /\ thr' = [thr EXCEPT ![w] = [IdleThread EXCEPT !.pc = "fn", !.op = "fn"]]
    /\ UNCHANGED <<adapters, estop_active, page, task_index, gui_events, gui, es, registry, reg, startup, bc, cam>>

\* fn returns its result
FnReturn(w) ==
    /\ thr[w].pc = "fn"
    /\ thr' = [thr EXCEPT ![w] = Return(thr[w], Unit)]
    /\ UNCHANGED <<adapters, appVars>>

\* fn raises an Exception
FnRaise(w) ==
    /\ thr[w].pc = "fn"
    /\ thr' = [thr EXCEPT ![w] = Raise(thr[w])]
    /\ UNCHANGED <<adapters, appVars>>

InitTask ==
    /\ now = 0
    /\ joint_limits = NoLimits
    /\ max_velocity = DefaultMaxVelocity
    /\ deadzone = DefaultDeadzone
    /\ timeout_ms = TimeoutMs
    /\ SafetyFilterInit
    /\ FilterObsInit
    /\ adapters = <<>>
    /\ thr = [t \in Threads |-> IdleThread]
    /\ AppInit

NextTask ==
    \/ \E id \in TaskIds : SubmitCall(id) /\ UNCHANGED <<filterVars, filterObs, teleopVars>>
    \/ \E id \in TaskIds : CancelCall(id) /\ UNCHANGED <<filterVars, filterObs, teleopVars>>
    \/ \E w \in Workers : TaskRun(w) /\ UNCHANGED <<filterVars, filterObs, teleopVars>>
    \/ \E w \in Workers : FnReturn(w) /\ UNCHANGED <<filterVars, filterObs, teleopVars>>
    \/ \E w \in Workers : FnRaise(w) /\ UNCHANGED <<filterVars, filterObs, teleopVars>>
    \/ \E w \in Workers : TaskEnd(w) /\ UNCHANGED teleopVars

SpecTask == InitTask /\ [][NextTask]_vars

(***************************************************************************)
(* SpecRegistry: the AdapterRegistry class, constructed any number of      *)
(* times, and any sequence of calls on the objects the constructions gave  *)
(***************************************************************************)
InitRegistry ==
    /\ now = 0
    /\ joint_limits = NoLimits
    /\ max_velocity = DefaultMaxVelocity
    /\ deadzone = DefaultDeadzone
    /\ timeout_ms = TimeoutMs
    /\ SafetyFilterInit
    /\ FilterObsInit
    /\ adapters = <<>>
    /\ thr = [t \in Threads |-> IdleThread]
    /\ WindowInit
    /\ registry = NoRegistry
    /\ reg = NoCall
    /\ startup = StartupDone
    /\ bc = NoBuild
    /\ cam = NewCamera

RegistryOnly ==
    UNCHANGED <<filterVars, filterObs, adapterVars, windowVars, teleopVars, startup, bc, cam>>

NextRegistry ==
    \/ Construct /\ RegistryOnly
    \/ \E ref \in reg.refs, ns \in Namespaces, id \in TypeNames, cls \in AdapterClasses :
          RegisterCall(ref, ns, id, cls) /\ RegistryOnly
    \/ \E ref \in reg.refs, ns \in Namespaces, id \in TypeNames :
          GetCall(ref, ns, id) /\ RegistryOnly
    \/ \E ref \in reg.refs, ns \in Namespaces :
          ListCall(ref, ns) /\ RegistryOnly

SpecRegistry == InitRegistry /\ [][NextRegistry]_vars

(***************************************************************************)
(* SpecAdapter: one adapter of either kind, a client that calls its        *)
(* methods in any order, the device failing at any call                    *)
(***************************************************************************)
ClientCall(op, arg) ==
    /\ thr[Client].pc = "idle"
    /\ thr' = [thr EXCEPT ![Client] =
                  Begin([thr[Client] EXCEPT !.stop = NoStop], op, 1, arg)]
    /\ UNCHANGED adapters

\* the client calls stop()
ClientStop ==
    /\ thr[Client].pc = "idle"
    /\ thr' = [thr EXCEPT ![Client] =
                  [BeginStop(thr[Client], 1) EXCEPT
                      !.stop.disturbed = thr[Second].pc # "idle"]]
    /\ UNCHANGED adapters

InitAdapter ==
    /\ now = 0
    /\ joint_limits = NoLimits
    /\ max_velocity = 0
    /\ deadzone = 0
    /\ timeout_ms = TimeoutMs
    /\ SafetyFilterInit
    /\ FilterObsInit
    /\ \E kind \in Kinds : adapters = <<NewAdapter(kind)>>
    /\ thr = [t \in Threads |-> IdleThread]
    /\ AppInit

NextAdapter ==
    \/ \E op \in (AdapterOps \cup NameOps) \ {"send_action"} :
          ClientCall(op, EmptyMap) /\ UNCHANGED <<filterVars, filterObs, appVars, teleopVars>>
    \/ ClientStop /\ UNCHANGED <<filterVars, filterObs, appVars, teleopVars>>
    \/ \E arg \in Actions :
          ClientCall("send_action", arg) /\ UNCHANGED <<filterVars, filterObs, appVars, teleopVars>>
    \/ MethodStep(Client) /\ UNCHANGED <<filterVars, filterObs, appVars, teleopVars>>

SpecAdapter == InitAdapter /\ [][NextAdapter]_vars

(***************************************************************************)
(* SpecShared: one adapter of either kind used by two threads: a client    *)
(* that calls its methods in any order and a second thread that connects,  *)
(* disconnects and emergency-stops it at any moment                        *)
(***************************************************************************)
\* the second thread calls connect, disconnect or emergency_stop
SecondCall(op) ==
    /\ thr[Second].pc = "idle"
    /\ thr' = [thr EXCEPT ![Second] = Begin(UnobservedThread, op, 1, EmptyMap),
                          ![Client].stop.disturbed = @ \/ thr[Client].stop.calls # <<>>]
    /\ UNCHANGED adapters

SharedOnly == UNCHANGED <<filterVars, filterObs, appVars, teleopVars>>

NextShared ==
    \/ \E op \in {"is_connected", "get_state", "get_diagnostics"} \cup NameOps :
          ClientCall(op, EmptyMap) /\ SharedOnly
    \/ ClientStop /\ SharedOnly
    \/ MethodStep(Client) /\ SharedOnly
    \/ \E op \in {"connect", "disconnect", "emergency_stop"} :
          SecondCall(op) /\ SharedOnly
    \/ MethodStep(Second) /\ SharedOnly

SpecShared == InitAdapter /\ [][NextShared]_vars

(***************************************************************************)
(* SpecFilter: one SafetyFilter, any configuration, any sequence of calls  *)
(***************************************************************************)
InitFilter ==
    /\ now = 0
    /\ joint_limits \in {NoLimits, Joint1Limits}
    /\ max_velocity \in 0..MaxVel
    /\ deadzone \in 0..MaxDz
    /\ timeout_ms = TimeoutMs
    /\ SafetyFilterInit
    /\ FilterObsInit
    /\ adapters = <<>>
    /\ thr = [t \in Threads |-> IdleThread]
    /\ AppInit

NextFilter ==
    \/ \E active \in BOOLEAN : set_e_stop(active) /\ UNCHANGED <<adapterVars, appVars, teleopVars>>
    \/ \E action \in Actions : filter_action(action) /\ UNCHANGED <<adapterVars, appVars, teleopVars>>
    \/ check_timeout /\ UNCHANGED <<adapterVars, appVars, teleopVars>>
    \/ reset /\ UNCHANGED <<adapterVars, appVars, teleopVars>>
    \/ Advance /\ UNCHANGED <<adapterVars, appVars, teleopVars>>

SpecFilter == InitFilter /\ [][NextFilter]_vars

(***************************************************************************)
(* SpecWatchdog: one SafetyFilter with the default limits and a timeout of *)
(* half a clock unit or of exactly one clock unit, any sequence of calls   *)
(***************************************************************************)
InitWatchdog ==
    /\ now = 0
    /\ joint_limits = NoLimits
    /\ max_velocity = DefaultMaxVelocity
    /\ deadzone = DefaultDeadzone
    /\ timeout_ms \in {TimeoutMs, MsPerSecond}
    /\ SafetyFilterInit
    /\ FilterObsInit
    /\ adapters = <<>>
    /\ thr = [t \in Threads |-> IdleThread]
    /\ AppInit

SpecWatchdog == InitWatchdog /\ [][NextFilter]_vars

(***************************************************************************)
(* SpecChannels: one armed SafetyFilter with a range for joint_1 only, fed *)
(* actions over two channels                                               *)
(***************************************************************************)
InitChannels ==
    /\ now = 0
    /\ joint_limits = Joint1Limits
    /\ max_velocity \in 0..MaxVel
    /\ deadzone \in 0..MaxDz
    /\ timeout_ms = TimeoutMs
    /\ SafetyFilterInit
    /\ FilterObsInit
    /\ adapters = <<>>
    /\ thr = [t \in Threads |-> IdleThread]
    /\ AppInit

NextChannels ==
    \/ \E action \in Actions2 : filter_action(action) /\ UNCHANGED <<adapterVars, appVars, teleopVars>>
    \/ reset /\ UNCHANGED <<adapterVars, appVars, teleopVars>>

SpecChannels == InitChannels /\ [][NextChannels]_vars

(***************************************************************************)
(* SpecTrack: one armed SafetyFilter configured within the ranges of the   *)
(* teleoperation page (max velocity above zero, dead zone from zero), fed  *)
(* an action on every tick; a tick may repeat the action of the previous   *)
(* one, and the tick timer keeps firing                                    *)
(***************************************************************************)
InitTrack ==
    /\ now = 0
    /\ joint_limits \in {NoLimits, Joint1Limits}
    /\ max_velocity \in 1..MaxVel
    /\ deadzone \in 0..MaxDz
    /\ timeout_ms = TimeoutMs
    /\ SafetyFilterInit
    /\ FilterObsInit
    /\ adapters = <<>>
    /\ thr = [t \in Threads |-> IdleThread]
    /\ AppInit

\* a tick with a new target
Feed == \E action \in Actions : filter_action(action)

\* a tick with the target of the previous tick
Repeat == f_op = "filter_action" /\ filter_action(f_arg)

NextTrack ==
    \/ Feed /\ UNCHANGED <<adapterVars, appVars, teleopVars>>
    \/ Repeat /\ UNCHANGED <<adapterVars, appVars, teleopVars>>

SpecTrack == InitTrack /\ [][NextTrack]_vars /\ WF_vars(Repeat /\ UNCHANGED <<adapterVars, appVars, teleopVars>>)

(***************************************************************************)
(* Claims about SafetyFilter (checked under SpecFilter)                    *)
(***************************************************************************)
\* the last call was a filter_action that returned an action
Emitted == f_op = "filter_action" /\ ~f_ret.is_none

\* what a filter without memory returns: the range clamp of every channel
ClampOnly(action) == [k \in DOMAIN action |-> ClampToLimits(k, action[k])]

\* C1 (as stated): once set_e_stop(True) was called and no set_e_stop(False)
\* followed, every filter_action returns None, whatever other calls
\* (filter_action, check_timeout, reset) came in between.
C1_NoneUntilRelease ==
    (f_op = "filter_action" /\ requested) => f_ret = None

\* C1 (amended): once set_e_stop(True) was called and neither
\* set_e_stop(False) nor reset() followed, every filter_action returns None.
C1_NoneUntilReleaseOrReset ==
    (f_op = "filter_action" /\ requested /\ ~reset_since) => f_ret = None

\* a filter holding a previous value was tripped and then refused an action
C1_Witness ==
    /\ f_op = "filter_action"
    /\ requested /\ ~reset_since
    /\ f_pre # EmptyMap
    /\ f_arg # EmptyMap
    /\ f_ret = None

\* C2: every value emitted for a channel whose joint has a configured range
\* [lo, hi] lies in [lo, hi], and so does the value the filter remembers.
C2_InRange ==
    /\ Emitted =>
         \A k \in DOMAIN f_ret.value :
            JointName(k) \in DOMAIN joint_limits =>
               /\ joint_limits[JointName(k)][1] <= f_ret.value[k]
               /\ f_ret.value[k] <= joint_limits[JointName(k)][2]
    /\ \A k \in DOMAIN last_action :
          JointName(k) \in DOMAIN joint_limits =>
             /\ joint_limits[JointName(k)][1] <= last_action[k]
             /\ last_action[k] <= joint_limits[JointName(k)][2]

\* an out-of-range input met a previous value: it was clamped and then
\* rate limited
C2_Witness ==
    /\ Emitted
    /\ \E k \in DOMAIN f_arg \cap DOMAIN f_pre :
          /\ JointName(k) \in DOMAIN joint_limits
          /\ f_arg[k] < joint_limits[JointName(k)][1]
          /\ f_ret.value[k] # ClampToLimits(k, f_arg[k])
          /\ f_ret.value[k] # f_pre[k]

\* C3 (as stated): with no reset in between, two consecutive values emitted
\* for the same channel differ by at most max_velocity, also when the actions
\* in between omitted the channel.
C3_RateBound ==
    [][(f_op' = "filter_action" /\ ~f_ret'.is_none) =>
          \A k \in DOMAIN f_ret'.value \cap DOMAIN emitted :
             Abs(f_ret'.value[k] - emitted[k]) <= max_velocity]_vars

C5_ResetIsFresh ==
    /\ f_op = "reset" => (~e_stopped /\ last_action = EmptyMap)
    /\ (Emitted /\ since_reset = "first") => f_ret.value = ClampOnly(f_arg)

\* a tripped filter was reset and then emitted an action
C5_Witness ==
    /\ Emitted
    /\ since_reset = "first"
    /\ requested /\ reset_since
    /\ f_arg # EmptyMap

\* the range clamp as the claim states it
Clamped(k, v) ==
    IF JointName(k) \in DOMAIN joint_limits
    THEN LET lo == joint_limits[JointName(k)][1]
             hi == joint_limits[JointName(k)][2]
         IN IF v < lo THEN lo ELSE IF v > hi THEN hi ELSE v
    ELSE v

\* at most max_velocity away from prev, in the direction of c
Stepped(c, prev) ==
    IF Abs(c - prev) > max_velocity
    THEN IF c > prev THEN prev + max_velocity ELSE prev - max_velocity
    ELSE c

\* a result closer to prev than deadzone is replaced by prev
Held(r, prev) == IF Abs(r - prev) < deadzone THEN prev ELSE r

\* C24: filter_action on an armed filter computes per channel: c = the input
\* clamped to the configured range; without previous value the output is c;
\* otherwise prev +/- max_velocity towards c if |c - prev| > max_velocity,
\* else c; then prev if that differs from prev by less than deadzone.  The
\* output has exactly the input's channels and becomes the filter's memory.
C24_PerChannel ==
    Emitted =>
       /\ DOMAIN f_ret.value = DOMAIN f_arg
       /\ last_action = f_ret.value
       /\ \A k \in DOMAIN f_arg :
             f_ret.value[k] =
                IF k \in DOMAIN f_pre
                THEN Held(Stepped(Clamped(k, f_arg[k]), f_pre[k]), f_pre[k])
                ELSE Clamped(k, f_arg[k])

\* one action over both channels: joint_1 out of range and rate limited on
\* the way down, joint_2 without previous value and passed through
C24_Witness ==
    /\ Emitted
    /\ DOMAIN f_arg = Keys2
    /\ DOMAIN f_pre = {Key1}
    /\ f_arg[Key1] < f_pre[Key1]
    /\ f_ret.value[Key1] = f_pre[Key1] - max_velocity
    /\ f_ret.value[Key1] # f_arg[Key1]
    /\ f_ret.value[Key2] = f_arg[Key2]
    /\ f_arg[Key2] > LimHi

\* v is a target the range of the channel's joint admits
InRange(k, v) == ClampToLimits(k, v) = v

\* the channel is fed the target v
Fed(k, v) == f_op = "filter_action" /\ k \in DOMAIN f_arg /\ f_arg[k] = v

\* the value the filter holds for the channel is no further than deadzone
\* from v
Settled(k, v) == k \in DOMAIN last_action /\ Abs(last_action[k] - v) <= deadzone

\* C25: if from some tick on an armed filter is fed the same in-range
\* target for a channel on every tick, then, whatever max_velocity and
\* deadzone are, the emitted value eventually is within deadzone of the
\* target and stays there.
C25_ReachesTarget ==
    \A v \in Vals :
       InRange(Key1, v) => (<>[]Fed(Key1, v) => <>[]Settled(Key1, v))

\* the fields of the filter other than the emergency-stop flag
FilterRest == <<joint_limits, max_velocity, deadzone, timeout_ms, last_action,
                last_input_time, enabled>>

\* C26: a filter_action on a tripped filter returns None and leaves every
\* field as it was, the remembered values and the watchdog timestamp
\* included; set_e_stop changes nothing but the emergency-stop flag.  So the
\* memory a released filter limits against is the one it had when tripped.
C26_TrippedChangesNothing ==
    /\ [][(f_op' = "filter_action" /\ e_stopped) =>
             /\ f_ret' = None
             /\ e_stopped'
             /\ UNCHANGED FilterRest]_vars
    /\ [][f_op' = "set_e_stop" => UNCHANGED FilterRest]_vars

\* a tripped filter that remembers a value refused, later than its last
\* input, an action with another value for that channel
C26_Witness ==
    /\ f_op = "filter_action"
    /\ e_stopped
    /\ f_ret = None
    /\ now > last_input_time
    /\ \E k \in DOMAIN f_arg \cap DOMAIN last_action : f_arg[k] # last_action[k]

\* C15: check_timeout() returns true exactly when the time elapsed since the
\* last filter_action that returned an action (since construction or reset()
\* if there was none) exceeds timeout_ms; a filter_action that returned None
\* does not restart the watchdog.
C15_Watchdog ==
    f_op = "check_timeout" =>
       (f_timeout <=> watch.overdue)

\* the watchdog fired although the tripped filter had refused an action in
\* the meantime
C15_Witness ==
    /\ f_op = "check_timeout"
    /\ f_timeout
    /\ watch.refused
    /\ e_stopped

(***************************************************************************)
(* Claims about the robot adapters (checked under SpecAdapter)             *)
(***************************************************************************)
\* the client's last call was op and has returned or raised
Completed(op) == thr[Client].pc = "idle" /\ thr[Client].op = op

\* C7: emergency_stop() on an adapter that holds a handle never raises and
\* leaves the adapter without a handle, also when the bus write or the
\* disconnect fails; only a connect makes the adapter connected again.
C7_EmergencyStopReleases ==
    /\ [](Completed("emergency_stop") /\ thr[Client].pre.held =>
            /\ ~thr[Client].raised
            /\ ~adapters[1].robot.held
            /\ ~IsConnected(adapters[1].robot))
    /\ [][(~IsConnected(adapters[1].robot) /\ IsConnected(adapters'[1].robot))
            => thr[Client].op = "connect"]_vars

\* emergency_stop() ran on a connected adapter and the device call failed
C7_Witness ==
    /\ Completed("emergency_stop")
    /\ IsConnected(thr[Client].pre)
    /\ thr[Client].dev_err
    /\ ~adapters[1].robot.held

\* C8: disconnect() and emergency_stop() on an adapter without a handle
\* change nothing, touch no device and raise nothing.
C8_Idempotent ==
    \A op \in {"disconnect", "emergency_stop"} :
       (Completed(op) /\ ~thr[Client].pre.held) =>
          /\ ~thr[Client].raised
          /\ ~thr[Client].touched
          /\ adapters[1].robot = thr[Client].pre
          /\ adapters[1].lock = Free

\* emergency_stop() was called twice in a row
C8_Witness ==
    /\ Completed("emergency_stop")
    /\ thr[Client].prev = "emergency_stop"
    /\ ~thr[Client].pre.held
    /\ ~thr[Client].touched

\* C9: disconnect() never raises; also when the robot's disconnect fails the
\* handle is released and the adapter lock is free afterwards.
C9_DisconnectNeverRaises ==
    Completed("disconnect") =>
       /\ ~thr[Client].raised
       /\ ~adapters[1].robot.held
       /\ ~IsConnected(adapters[1].robot)
       /\ adapters[1].lock = Free

\* disconnect() ran on a connected adapter and the robot's disconnect failed
C9_Witness ==
    /\ Completed("disconnect")
    /\ IsConnected(thr[Client].pre)
    /\ thr[Client].dev_err
    /\ ~adapters[1].robot.held

\* C10 (as stated): whenever is_connected is false, get_state() returns the
\* empty mapping and send_action(a) returns a; neither raises and neither
\* accesses the device.
C10_SafeWhenNotConnected ==
    /\ (Completed("get_state") /\ ~IsConnected(thr[Client].pre)) =>
          /\ ~thr[Client].raised
          /\ ~thr[Client].touched
          /\ thr[Client].ret = EmptyState
    /\ (Completed("send_action") /\ ~IsConnected(thr[Client].pre)) =>
          /\ ~thr[Client].raised
          /\ ~thr[Client].touched
          /\ thr[Client].ret = ActionRet(thr[Client].arg)

(***************************************************************************)
(* Claims about the global E-stop (checked under SpecApp)                  *)
(***************************************************************************)
\* C6: if the current adapter is connected when the global E-stop is
\* triggered, then once the handler has returned the adapter is not connected
\* and never becomes connected again (a new connect constructs a new
\* adapter), and the SafetyFilter is tripped for as long as the button stays
\* down.
C6_EStopDisconnects ==
    (es.done /\ es.was_connected) =>
       /\ ~IsConnected(adapters[es.ad].robot)
       /\ ~adapters[es.ad].robot.held
       /\ estop_active => e_stopped

\* the E-stop handler has returned after stopping a connected adapter whose
\* page showed "Connected"
C6_Witness ==
    /\ es.done /\ es.was_connected
    /\ gui.h = "none"
    /\ page.current_adapter = es.ad
    /\ page.status = "Connected"
    /\ thr[Gui].op = "emergency_stop"
    /\ ~IsConnected(adapters[es.ad].robot)
    /\ e_stopped

(***************************************************************************)
(* Claims about the TaskManager (checked under SpecTask)                   *)
(***************************************************************************)
\* C11: the run of every task emits started first and exactly once, and once
\* its operation has ended exactly one more signal: error if and only if the
\* operation raised, finished only if it returned and the task had not been
\* cancelled, cancelled otherwise; the caller of submit sees no exception.
C11_TaskSignals ==
    /\ \A w \in Workers :
          LET task == tasks[w] IN
          /\ task.state \in {"none", "queued"} => task.log = <<>>
          /\ task.state = "running" => task.log = <<"started">>
          /\ task.state = "done" =>
                /\ Len(task.log) = 2
                /\ task.log[1] = "started"
                /\ task.log[2] \in {"finished", "error", "cancelled"}
                /\ task.log[2] = "error" <=> thr[w].raised
                /\ task.log[2] = "finished" => ~thr[w].raised /\ ~task.early_cancel
                /\ task.log[2] = "cancelled" => task.early_cancel
    /\ ~thr[Client].raised

\* one task was cancelled while it ran and ended with cancelled, another
\* one raised and ended with error
C11_Witness ==
    \E w, v \in Workers :
       /\ tasks[w].state = "done" /\ tasks[w].log = <<"started", "cancelled">>
       /\ tasks[v].state = "done" /\ tasks[v].log = <<"started", "error">>
       /\ thr[v].raised

(***************************************************************************)
(* Claims about the devices page (checked under SpecApp)                   *)
(***************************************************************************)
\* a connect task has been submitted and its run has not ended
ConnectInFlight ==
    \E w \in Workers :
       tasks[w].task_id = "robot_connect" /\ tasks[w].state \in {"queued", "running"}

\* the run of the connect task on adapter ad has ended
ConnectCompleted(ad) ==
    \E w \in Workers :
       /\ tasks[w].task_id = "robot_connect"
       /\ tasks[w].state = "done"
       /\ tasks[w].ad = ad

\* C12: a thread is inside get_state or send_action of an adapter only after
\* the connect task on that adapter has ended; the state-polling timer is not
\* running while a connect task is in flight, and it is started only by the
\* handler of a finished notification.
C12_PollAfterConnect ==
    /\ [](/\ \A t \in Threads :
               (thr[t].pc # "idle" /\ thr[t].op \in {"get_state", "send_action"})
                  => ConnectCompleted(thr[t].ad)
          /\ page.poll_timer => ~ConnectInFlight)
    /\ [][(~page.poll_timer /\ page'.poll_timer) =>
             (gui_events # <<>> /\ Head(gui_events) = "finished")]_vars

\* the timer polls the state of the second adapter while the disconnect task
\* of the first one is still running
C12_Witness ==
    /\ thr[Gui].op = "get_state" /\ thr[Gui].pc = "get_state"
    /\ thr[Gui].ad = 2
    /\ page.poll_timer
    /\ \E w \in Workers :
          /\ tasks[w].task_id = "robot_disconnect"
          /\ tasks[w].state = "running"
          /\ tasks[w].ad = 1

\* C13 (as stated): the E-stop handler never waits for work in flight: when
\* it calls emergency_stop on the current adapter, the adapter lock is not
\* held by a connect or disconnect running on a pool thread.
C13_EStopNeverWaits ==
    (gui.h = "estop.stop" /\ thr[Gui].pc = "acquire") =>
       adapters[thr[Gui].ad].lock = Free

\* the adapters that are connected
LiveAdapters == {i \in 1..Len(adapters) : IsConnected(adapters[i].robot)}

\* C14 (as stated): at most one adapter is connected at any time, and while
\* the connect of an adapter runs, every adapter constructed before it has
\* been disconnected (or emergency-stopped) and no disconnect task of an
\* earlier adapter is in flight.
C14_OneLiveHandle ==
    /\ Cardinality(LiveAdapters) <= 1
    /\ \A w \in Workers :
          (tasks[w].task_id = "robot_connect" /\ tasks[w].state = "running") =>
             /\ \A i \in 1..(tasks[w].ad - 1) : ~adapters[i].robot.held
             /\ \A v \in Workers :
                   tasks[v].task_id = "robot_disconnect" => tasks[v].state = "done"

(***************************************************************************)
(* Claims about the control session (checked under SpecTeleop and          *)
(* SpecTeleopFair)                                                         *)
(***************************************************************************)
\* a tick goes on to poll the adapter only after check_timeout returned
\* false
PollOnlyInTime ==
    [][(gui.h = "none" /\ gui'.h = "tick.state") =>
          (teleop.running /\ f_op' = "check_timeout" /\ ~f_timeout')]_vars

\* the tick in which check_timeout returns true ends the session
TimeoutEndsSession ==
    [][(teleop.running /\ teleop'.outcome = "timeout") =>
          /\ f_op' = "check_timeout" /\ f_timeout'
          /\ ~teleop'.running /\ ~teleop'.poll_timer
          /\ gui'.h # "tick.state"]_vars

\* a running session whose watchdog is overdue stops, unless the user
\* raises the timeout above the silence
StalledSessionStops ==
    (teleop.running /\ CheckTimeoutValue)
       ~> (~teleop.running \/ ~CheckTimeoutValue)

\* the GUI thread is inside a handler that ends a session on timeout
InTimeoutStop == teleop.outcome = "timeout" /\ gui.h # "none"

\* C16 (as stated): every tick of a running session evaluates check_timeout
\* first; if it is true the session ends in that tick (running flag cleared,
\* timer stopped) and the tick does not read the adapter state; a session
\* whose watchdog is overdue eventually stops.
C16_WatchdogNoRead ==
    /\ PollOnlyInTime
    /\ TimeoutEndsSession
    /\ [](InTimeoutStop => thr[Gui].op # "get_state")
    /\ StalledSessionStops

\* C16 (amended): as above, but the tick that ends the session skips only its
\* own poll: ending the session calls stop() on a connected adapter, which
\* reads the state once and sends it back as the hold action.
C16_WatchdogFirst ==
    /\ PollOnlyInTime
    /\ TimeoutEndsSession
    /\ [](InTimeoutStop /\ thr[Gui].op \in {"get_state", "send_action"} =>
             gui.h = "stop.stop" /\ thr[Gui].caller = "stop")
    /\ StalledSessionStops

\* the watchdog ended a session and the hold action of stop() is being sent
C16_Witness ==
    /\ InTimeoutStop
    /\ f_op = "check_timeout" /\ f_timeout
    /\ ~teleop.running /\ ~teleop.poll_timer
    /\ gui.h = "stop.stop"
    /\ thr[Gui].op = "send_action" /\ thr[Gui].pc = "send_action"
    /\ thr[Gui].caller = "stop"

\* a step in which the start handler ends without starting a session
StartRefusal ==
    \/ /\ gui.h = "start.check"
       /\ gui'.h = "none"
       /\ ~teleop'.running
    \/ /\ gui.h = "none"
       /\ teleop.robot_adapter = 0
       /\ teleop.outcome # "no_adapter"
       /\ teleop'.outcome = "no_adapter"

\* C17: the running flag is set only by the start handler after it found a
\* robot adapter whose is_connected returned true; a refused start leaves
\* the running flag, the timer and the SafetyFilter as they were.
C17_StartNeedsConnected ==
    /\ [][(~teleop.running /\ teleop'.running) =>
             /\ gui.h = "start.check"
             /\ teleop.robot_adapter # 0
             /\ ~thr[Gui].raised
             /\ thr[Gui].ret = Bool(TRUE)]_vars
    /\ [][StartRefusal =>
             /\ ~teleop'.running /\ ~teleop'.poll_timer
             /\ teleop'.running = teleop.running
             /\ teleop'.poll_timer = teleop.poll_timer
             /\ UNCHANGED <<filterVars, filterObs>>]_vars

\* the start was refused for an adapter that holds a handle after a failed
\* connect; the filter was never reset
C17_Witness ==
    /\ teleop.outcome = "not_connected"
    /\ teleop.robot_adapter = 1
    /\ adapters[1].robot.held
    /\ ~teleop.running /\ ~teleop.poll_timer
    /\ since_reset = "constructed"

\* C18: the running flag is cleared only by the stop handler, entered by a
\* click on Stop or by a tick whose check_timeout returned true; a tick whose
\* get_state raised leaves the running flag and the timer set.
C18_OnlyStopEnds ==
    /\ [][(teleop.running /\ ~teleop'.running) =>
             /\ gui.h = "none"
             /\ teleop'.outcome \in {"click", "timeout"}
             /\ teleop'.outcome = "click" => teleop.stop_btn
             /\ teleop'.outcome = "timeout" =>
                   (f_op' = "check_timeout" /\ f_timeout')]_vars
    /\ [][(gui.h = "tick.state" /\ gui'.h = "none" /\ thr[Gui].raised) =>
             /\ teleop.running /\ teleop.poll_timer
             /\ teleop'.running /\ teleop'.poll_timer]_vars

\* a tick failed in get_state and the session is still running
C18_Witness ==
    /\ teleop.outcome = "tick_error"
    /\ teleop.running /\ teleop.poll_timer
    /\ gui.h = "none"


(***************************************************************************)
(* C19  AdapterRegistry                                                    *)
(***************************************************************************)
\* how many times x occurs in the list
Occurrences(list, x) == Cardinality({i \in 1..Len(list) : list[i] = x})

\* get_X_adapter gives the class of the most recent register_X of that type
\* name, None if there was none
GetGivesLatest ==
    reg.op = "get" => reg.ret = reg.latest[reg.ns][reg.id]

\* list_X_types holds every registered type name once and no other
ListHasEachOnce ==
    reg.op = "list" =>
        \A id \in TypeNames :
            Occurrences(reg.listed, id) =
                IF reg.latest[reg.ns][id] # NoClass THEN 1 ELSE 0

\* a register_X call leaves the mappings of the other namespaces as they were
OtherNamespacesKept ==
    (reg'.op = "register" /\ registry' # registry) =>
        /\ Len(registry'.objects) = Len(registry.objects)
        /\ \A o \in 1..Len(registry.objects), ns \in Namespaces \ {reg'.ns} :
               /\ ListTypes(ns, registry'.objects[o]) = ListTypes(ns, registry.objects[o])
               /\ \A id \in TypeNames :
                      GetAdapter(ns, registry'.objects[o], id) =
                          GetAdapter(ns, registry.objects[o], id)

\* every AdapterRegistry() gave the one object that _instance holds
OneSharedRegistry ==
    /\ Len(registry.objects) <= 1
    /\ reg.refs \subseteq {registry.instance}

\* C19: after any sequence of register_* calls get_X_adapter(id) returns the
\* class of the most recent register_X(id, .) and None if id was never
\* registered in namespace X; list_X_types contains each registered id exactly
\* once; a registration in one namespace leaves the other two unchanged;
\* every AdapterRegistry() construction yields the same shared mappings
C19_Registry ==
    /\ [](GetGivesLatest /\ ListHasEachOnce /\ OneSharedRegistry)
    /\ [][OtherNamespacesKept]_vars

\* a type name registered twice with different classes, in a registry
\* constructed twice, is looked up and listed next to a second type name
C19_Witness ==
    /\ reg.op = "list"
    /\ reg.overwrote
    /\ reg.made = 2
    /\ Len(reg.listed) = 2
    /\ \E ns \in Namespaces \ {reg.ns} : Len(ListTypes(ns, registry.objects[reg.ref])) = 1

(***************************************************************************)
(* C20  a device type the registry does not hold                           *)
(***************************************************************************)
\* the adapters made for a type without a registry entry
Unlisted ==
    {a \in 1..Len(adapters) :
        get_robot_adapter(registry.objects[registry.instance],
                          adapters[a].robot_type) = NoClass}

\* the connect tasks that have run to their end on such an adapter
UnlistedEnded ==
    {w \in Workers : /\ tasks[w].task_id = "robot_connect"
                     /\ tasks[w].state = "done"
                     /\ tasks[w].ad \in Unlisted}

\* the generic adapter is used, and it never holds a robot
UnlistedNeverHeld ==
    \A a \in Unlisted :
        /\ adapters[a].kind = "generic"
        /\ adapters[a].robot = NoRobot
        /\ ~IsConnected(adapters[a].robot)

\* the connect task ends with the error signal
UnlistedEndsInError ==
    \A w \in UnlistedEnded : tasks[w].log = <<"started", "error">>

\* once the error signal has been handled the page shows the failure and
\* Connect is enabled, for as long as that adapter is the current one
UnlistedShownFailed ==
    \A w \in UnlistedEnded :
        (tasks[w].heard /\ gui_events = <<>> /\ page.current_adapter = tasks[w].ad) =>
            /\ page.status = "Connection Failed"
            /\ page.connect_btn
            /\ ~page.disconnect_btn

NamesReturned ==
    /\ thr[Client].pc = "idle"
    /\ thr[Client].op \in NameOps

\* called on an adapter that is not connected, they return the empty list
NamesEmptyWhenNotConnected ==
    (NamesReturned /\ ~IsConnected(thr[Client].pre)) =>
        (~thr[Client].raised /\ thr[Client].ret = Names(<<>>))

\* called on a connected adapter, they return the one list of channel names
NamesFixedWhenConnected ==
    (NamesReturned /\ IsConnected(thr[Client].pre)) =>
        (~thr[Client].raised /\ thr[Client].ret = Names(MotorNames))

\* C21: get_action_names() and get_state_names() return the empty sequence
\* whenever the adapter is not connected, for the generic and the Piper
\* adapter, and the same fixed ordering on every call while connected
C21_NamesByConnection ==
    /\ NamesEmptyWhenNotConnected
    /\ NamesFixedWhenConnected

StopEnded == thr[Client].pc = "idle" /\ thr[Client].op = "stop"

\* the calls of a stop() that reads the state and re-sends it
ReadAndSend == <<"is_connected", "get_state", "send_action">>

\* a send_action of stop() is its only one, comes right after its get_state
\* and carries the state that get_state returned
SendsWhatItRead ==
    LET st == thr[Client].stop IN
    (\E i \in 1..Len(st.calls) : st.calls[i] = "send_action") =>
        /\ st.calls = ReadAndSend
        /\ st.read.tag = "state"
        /\ thr[Client].arg = st.read.val

\* on a connected adapter stop() reads the state and sends it (unless the
\* read fails, which ends stop() with that error)
SendsWhenConnected ==
    LET st == thr[Client].stop IN
    (~st.disturbed /\ IsConnected(st.entry)) =>
        \/ st.calls = ReadAndSend
        \/ thr[Client].raised /\ st.calls = <<"is_connected", "get_state">>

\* on an adapter that is not connected stop() calls nothing but is_connected
NothingWhenNotConnected ==
    LET st == thr[Client].stop IN
    (~st.disturbed /\ ~IsConnected(st.entry)) =>
        (st.calls = <<"is_connected">> /\ ~thr[Client].raised)

\* an empty state is not sent
NothingWhenEmpty ==
    LET st == thr[Client].stop IN
    st.read = EmptyState =>
        (st.calls = <<"is_connected", "get_state">> /\ ~thr[Client].raised)

\* stop() leaves the handle as it found it
StopKeepsHandle ==
    ~thr[Client].stop.disturbed => adapters[1].robot = thr[Client].stop.entry

\* C23: stop() is a soft stop: on a connected adapter it issues exactly one
\* send_action whose argument is the state returned by the get_state call
\* made immediately before, and the adapter remains connected afterwards; on
\* an adapter that is not connected, or when the state read is empty, it
\* sends nothing
C23_SoftStop ==
    StopEnded =>
        /\ SendsWhatItRead
        /\ SendsWhenConnected
        /\ NothingWhenNotConnected
        /\ NothingWhenEmpty
        /\ StopKeepsHandle

\* a stop() on a connected adapter has sent a state other than the default
\* reading and the adapter is still connected
C23_Witness ==
    /\ StopEnded
    /\ ~thr[Client].raised
    /\ ~thr[Client].stop.disturbed
    /\ thr[Client].stop.calls = ReadAndSend
    /\ thr[Client].arg # MeasuredState
    /\ thr[Client].touched
    /\ IsConnected(adapters[1].robot)


(***************************************************************************)
(* Claims about the E-STOP and the teleop page (checked under SpecSession) *)
(***************************************************************************)
\* thread t executes the body of send_action on an adapter that holds a
\* connected robot: the action goes to the device
Sends(t) ==
    /\ thr[t].pc = "send_action"
    /\ thr'[t].pc # "send_action"
    /\ IsConnected(adapters[thr[t].ad].robot)

\* C27: in every reachable state of the application no send_action reaches
\* an adapter while the SafetyFilter is tripped, the re-send of the state by
\* the soft stop at the end of a session included.
C27_NoSendWhileTripped ==
    [][\A t \in Threads : Sends(t) => ~e_stopped]_vars

\* C28: while the E-STOP button is latched active the SafetyFilter is
\* tripped, whatever the user does in between (connect, disconnect, start
\* and stop of sessions).
C28_LatchedMeansTripped ==
    estop_active => e_stopped

\* C29: if the E-STOP is triggered while a connect task for the current
\* adapter is in flight, then once the handler has returned and that connect
\* has ended the adapter is not connected, for as long as the button stays
\* latched.
C29_NoConnectUnderEStop ==
    (estop_active /\ es.done /\ es.connecting /\ ~ConnectPending(es.ad)) =>
       ~IsConnected(adapters[es.ad].robot)

\* C30: every connect attempt leaves the devices page in "Connected" or in
\* "Connection Failed": the finished or error notification of the task
\* reaches the page in every interleaving of the pool thread with the GUI
\* thread.  So once the run of the current adapter's connect task has ended
\* and the GUI thread has handled what was queued for it, the page no longer
\* shows "Connecting...".
C30_ConnectIsAnswered ==
    \A w \in Workers :
       (/\ tasks[w].task_id = "robot_connect"
        /\ tasks[w].state = "done"
        /\ tasks[w].ad = page.current_adapter
        /\ gui_events = <<>>
        /\ gui.h = "none")
       => /\ tasks[w].heard
          /\ page.status # "Connecting..."

(***************************************************************************)
(* Claims about a failed connect (checked under SpecAdapter)               *)
(***************************************************************************)
\* C31 (as stated): if a connect on a robot adapter fails at any step, the
\* adapter afterwards holds no handle (it is in the state of a fresh
\* adapter), and a later disconnect or emergency_stop on it touches no
\* device.
C31_FailedConnectLeavesNoHandle ==
    /\ (Completed("connect") /\ thr[Client].raised) =>
          adapters[1].robot = NoRobot
    /\ \A op \in {"disconnect", "emergency_stop"} :
          (Completed(op) /\ thr[Client].prev = "connect"
                         /\ ~IsConnected(thr[Client].pre)) =>
             ~thr[Client].touched

(***************************************************************************)
(* SpecDrop: the teleop page with the SafetyFilter and one adapter whose   *)
(* owner connects, disconnects and emergency-stops it at any moment.  The  *)
(* wall clock never stops; the GUI thread and the owner's thread keep      *)
(* running, the running timer keeps firing, and the GUI thread gets the    *)
(* adapter lock if the lock is free again and again                        *)
(***************************************************************************)
\* time.time() grows without end.  The clock counts up to MaxTime; from then
\* on the origin moves with it, which keeps every age below MaxTime exact
\* and every other age at MaxTime
Elapse ==
    IF now < MaxTime
    THEN Advance
    ELSE /\ last_input_time' = Max(last_input_time - 1, 0)
         /\ watch' = [watch EXCEPT !.since = Max(watch.since - 1, 0)]
         /\ UNCHANGED <<joint_limits, max_velocity, deadzone, timeout_ms,
                        last_action, enabled, e_stopped, now>>
         /\ UNCHANGED <<f_op, f_arg, f_ret, f_pre, f_timeout, emitted,
                        requested, reset_since, since_reset>>

\* the owner's thread advances inside emergency_stop
OwnerStopStep ==
    /\ EmergencyStopBody(Client)
    /\ UNCHANGED <<filterVars, filterObs, appVars, teleopVars>>

NextDrop ==
    \/ SetRobotAdapter(1)
    \/ \E timeout \in Timeouts : UpdateSafety(timeout)
    \/ OnStart
    \/ OnStartChecked
    \/ OnStop
    \/ OnStopChecked
    \/ OnStopStopped
    \/ PollTeleop
    \/ PollTeleopRead
    \/ \E op \in {"connect", "disconnect", "emergency_stop"} : OwnerCall(op)
    \/ GuiAdapterStep
    \/ OwnerAdapterStep
    \/ OwnerStopStep
    \/ Elapse /\ UNCHANGED <<adapterVars, appVars, teleopVars>>

SpecDrop ==
    /\ InitTeleop
    /\ [][NextDrop]_vars
    /\ WF_vars(Elapse /\ UNCHANGED <<adapterVars, appVars, teleopVars>>)
    /\ WF_vars(PollTeleop)
    /\ WF_vars(PollTeleopRead)
    /\ WF_vars(OnStopChecked)
    /\ WF_vars(OnStopStopped)
    /\ SF_vars(GuiAdapterStep)
    /\ WF_vars(OwnerAdapterStep)
    /\ WF_vars(OwnerStopStep)

(***************************************************************************)
(* Claims about the end of a control session (checked under SpecDrop)      *)
(***************************************************************************)
\* the session runs on an adapter that is not connected
RunsDisconnected ==
    /\ teleop.running
    /\ teleop.robot_adapter # 0
    /\ ~IsConnected(adapters[teleop.robot_adapter].robot)

\* C32: if the adapter of a running session becomes disconnected (by
\* disconnect or by emergency_stop), the session eventually stops: its
\* running flag is cleared and its polling timer stopped.
C32_DisconnectEndsSession ==
    RunsDisconnected ~> (~teleop.running /\ ~teleop.poll_timer)

\* the session is running, a disconnect or an emergency_stop has taken the
\* handle from its adapter, and a tick has since polled the adapter and got
\* the empty state
C32_Witness ==
    /\ RunsDisconnected
    /\ ~adapters[1].robot.held
    /\ teleop.outcome = "tick_ok"
    /\ teleop.poll_timer
    /\ gui.h = "none"

\* a step of the GUI thread inside the stop handler, its first step included
StopStep ==
    /\ \/ gui.h \in {"stop.check", "stop.stop"}
       \/ teleop.running /\ ~teleop'.running
    /\ thr'[Gui] # thr[Gui] \/ gui' # gui \/ teleop' # teleop

\* C33: stopping a session, by the user or by the watchdog, never
\* disconnects the adapter: no step of the stop changes the adapter's handle
\* or its connected flag; and after the stop no tick reads from or writes to
\* the adapter until a new start (the timer is stopped, and a tick polls the
\* adapter only in a session that was started and not stopped since).
C33_StopKeepsConnection ==
    /\ [][StopStep => \A a \in 1..Len(adapters) :
                         adapters'[a].robot = adapters[a].robot]_vars
    /\ [](~teleop.running => ~teleop.poll_timer /\ gui.h # "tick.state")
    /\ [][(gui.h = "none" /\ gui'.h = "tick.state") =>
             teleop.outcome \in {"started", "tick_ok", "tick_error"}]_vars

\* the watchdog has stopped a session whose adapter is connected, the stop
\* handler has returned and the adapter is still connected
C33_Witness ==
    /\ teleop.outcome = "timeout"
    /\ teleop.status = "Stopped"
    /\ gui.h = "none"
    /\ ~teleop.running /\ ~teleop.poll_timer
    /\ teleop.robot_adapter = 1
    /\ IsConnected(adapters[1].robot)

(***************************************************************************)
(* Claims about the connect tasks of the devices page (checked under       *)
(* SpecApp)                                                                *)
(***************************************************************************)
\* the connect tasks that are submitted and whose run() has not emitted
\* finished or error to the page: queued, running, or ended unheard
Unanswered ==
    {w \in Workers : /\ tasks[w].task_id = "robot_connect"
                     /\ \/ tasks[w].state \in {"queued", "running"}
                        \/ tasks[w].state = "done" /\ ~tasks[w].heard}

\* C34: the devices page never has two robot connect tasks in flight at the
\* same time: while a connect task is submitted and its finished or error
\* notification has not been handled by the page (the task is queued or
\* running, or the notification waits in the event queue), the Connect
\* button is disabled and no further connect task is submitted.
C34_OneConnectInFlight ==
    /\ [](Cardinality(Unanswered) + Len(gui_events) <= 1)
    /\ []((Unanswered # {} \/ gui_events # <<>>) =>
             (~page.connect_btn /\ ~page.disconnect_btn))
    /\ [][\A w \in Workers :
             (tasks[w].state = "none" /\ tasks'[w].task_id = "robot_connect")
                => (Unanswered = {} /\ gui_events = <<>>)]_vars

\* a second connect is in flight after the first was answered and the robot
\* disconnected, while the E-STOP button is down
C34_Witness ==
    /\ Cardinality({w \in Workers : tasks[w].task_id = "robot_connect"}) = 2
    /\ \E w \in Unanswered : tasks[w].state = "running"
    /\ \E w \in Workers : tasks[w].task_id = "robot_disconnect"
    /\ estop_active

(***************************************************************************)
(* Claims about the joint limits of a session (checked under SpecSession)  *)
(***************************************************************************)
\* PIPER_JOINT_LIMITS: a range for every motor of the Piper
PiperJointLimits ==
    [j \in {<<MotorOrder[i]>> : i \in 1..Len(MotorOrder)} |-> <<LimLo, LimHi>>]

\* C35 (as stated): whenever a control session runs against the Piper
\* adapter, the SafetyFilter of the session has the Piper static joint limits
\* as its operating ranges.
C35_PiperLimitsConfigured ==
    (/\ teleop.running
     /\ teleop.robot_adapter # 0
     /\ adapters[teleop.robot_adapter].kind = "piper")
       => joint_limits = PiperJointLimits

(***************************************************************************)
(* SpecLock: one adapter of either kind and two threads that call its      *)
(* locking methods and stop() in any order, the device failing at any      *)
(* call.  Each thread keeps running, and a thread that waits for the lock  *)
(* gets it if the lock is free again and again                             *)
(***************************************************************************)
LockThreads == {Client, Second}

\* thread t calls a method that takes the lock
LockCall(t, op) ==
    /\ thr[t].pc = "idle"
    /\ thr' = [thr EXCEPT ![t] = Begin(ResultThread, op, 1, EmptyMap)]
    /\ UNCHANGED adapters

\* thread t calls stop()
LockStop(t) ==
    /\ thr[t].pc = "idle"
    /\ thr' = [thr EXCEPT ![t] = BeginStop(ResultThread, 1)]
    /\ UNCHANGED adapters

\* one step of the locking method, or of the stop(), thread t is in
LockStep(t) ==
    /\ \/ Acquire(t)
       \/ ConnectBuild(t)
       \/ ConnectBus(t)
       \/ ConnectFinish(t)
       \/ DisconnectBody(t)
       \/ GetStateBody(t)
       \/ SendActionBody(t)
       \/ EmergencyStopBody(t)
       \/ IsConnectedFirst(t)
       \/ IsConnectedSecond(t)
       \/ StopResume(t)
    /\ SharedOnly

NextLock ==
    \/ \E t \in LockThreads, op \in LockedOps : LockCall(t, op) /\ SharedOnly
    \/ \E t \in LockThreads : LockStop(t) /\ SharedOnly
    \/ \E t \in LockThreads : LockStep(t)

SpecLock ==
    /\ InitAdapter
    /\ [][NextLock]_vars
    /\ \A t \in LockThreads :
          /\ WF_vars(LockStep(t))
          /\ SF_vars(Acquire(t) /\ SharedOnly)

(***************************************************************************)
(* Claims about the adapter lock (checked under SpecLock)                  *)
(***************************************************************************)
\* thread t is inside the "with self._lock" block of a method of adapter ad
InBody(t, ad) ==
    /\ thr[t].ad = ad
    /\ thr[t].pc \in LockedOps \cup {"connect.bus", "connect.finish"}

\* thread t waits at "with self._lock"
Waiting(t) == thr[t].pc = "acquire"

\* C36: for one adapter the bodies of connect, disconnect, get_state,
\* send_action and emergency_stop never execute concurrently (a thread is
\* inside a body only as the holder of the lock); no operation, stop()
\* included, waits for the lock while it holds it; and every caller that
\* waits for the lock eventually gets it.
C36_LockDiscipline ==
    /\ [](\A t \in Threads, u \in Threads :
             (InBody(t, 1) /\ InBody(u, 1)) => t = u)
    /\ [](\A t \in Threads : InBody(t, 1) <=> adapters[1].lock = t)
    /\ [](\A t \in Threads : Waiting(t) => adapters[thr[t].ad].lock # t)
    /\ \A t \in LockThreads : Waiting(t) ~> InBody(t, 1)

\* one thread is inside disconnect while the other, inside stop(), waits for
\* the lock to send the state it has read
C36_Witness ==
    /\ InBody(Second, 1) /\ thr[Second].op = "disconnect"
    /\ Waiting(Client)
    /\ thr[Client].caller = "stop" /\ thr[Client].op = "send_action"

(***************************************************************************)
(* Claims about is_connected under concurrency (checked under SpecShared)  *)
(***************************************************************************)
\* C37 (as stated): is_connected, evaluated on one thread while disconnect
\* or emergency_stop runs on another thread for the same adapter, always
\* returns a boolean and never fails on a handle that was cleared between
\* its null check and its use.
C37_IsConnectedNeverFails ==
    Completed("is_connected") =>
       /\ ~thr[Client].raised
       /\ thr[Client].ret \in {Bool(TRUE), Bool(FALSE)}

(***************************************************************************)
(* SpecStartup: MainWindow.__init__ populating the registry, step by step, *)
(* for any list of robot types the schema loader may give; then the pages  *)
(* look classes up                                                         *)
(***************************************************************************)
\* how many robot types the schema loader lists at most
MaxListed == 3
\* robot types of build_all_robot_schemas
RobotTypes == {"piper_follower", "so100_follower", "so101_follower", "koch_follower"}

\* SchemaLoader.list_types("robot"): the keys of a dict, so no type twice
Listings ==
    {l \in UNION {[1..n -> RobotTypes] : n \in 0..MaxListed} :
        \A i \in 1..Len(l), j \in 1..Len(l) : l[i] = l[j] => i = j}

\* "rtype not in self._adapter_registry.list_robot_types()", negated
Listed_Never(list, x) == FALSE
Listed(list, x) == \E j \in 1..Len(list) : list[j] = x

StartupOnly ==
    UNCHANGED <<filterVars, filterObs, adapterVars, windowVars, teleopVars, bc, cam>>

\* "self._adapter_registry = AdapterRegistry()"
StartupConstruct ==
    /\ startup.pc = "new"
    /\ Construct
    /\ startup' = [startup EXCEPT !.pc = "piper"]
    /\ StartupOnly

\* "register_robot("piper_follower", PiperRobotAdapter)"
StartupPiper ==
    /\ startup.pc = "piper"
    /\ registry' = [registry EXCEPT !.objects[registry.instance] =
                       register_robot(@, "piper_follower", "PiperRobotAdapter")]
    /\ startup' = [startup EXCEPT !.pc = "loop"]
    /\ UNCHANGED reg
    /\ StartupOnly

\* one round of "for rtype in self._schema_loader.list_types("robot")", or
\* the end of the loop
StartupLoop ==
    LET self == registry.objects[registry.instance]
        rtype == startup.types[startup.i] IN
    /\ startup.pc = "loop"
    /\ IF startup.i > Len(startup.types)
       THEN /\ startup' = [startup EXCEPT !.pc = "done"]
            /\ UNCHANGED registry
       ELSE /\ startup' = [startup EXCEPT !.i = @ + 1]
            /\ registry' =
                  IF Listed(list_robot_types(self), rtype)
                  THEN registry
                  ELSE [registry EXCEPT !.objects[registry.instance] =
                           register_robot(self, rtype, "GenericRobotAdapter")]
    /\ UNCHANGED reg
    /\ StartupOnly

\* DevicesPage._on_connect: "self._registry.get_robot_adapter(dtype)"
StartupLookup ==
    /\ startup.pc = "done"
    /\ \E dtype \in RobotTypes :
          reg' = [reg EXCEPT !.op = "get", !.ns = "robot", !.id = dtype,
                             !.ret = get_robot_adapter(
                                        registry.objects[registry.instance], dtype)]
    /\ UNCHANGED <<registry, startup, bc, cam>>
    /\ StartupOnly

InitStartup ==
    /\ now = 0
    /\ joint_limits = NoLimits
    /\ max_velocity = DefaultMaxVelocity
    /\ deadzone = DefaultDeadzone
    /\ timeout_ms = TimeoutMs
    /\ SafetyFilterInit
    /\ FilterObsInit
    /\ adapters = <<>>
    /\ thr = [t \in Threads |-> IdleThread]
    /\ WindowInit
    /\ registry = NoRegistry
    /\ reg = NoCall
    /\ \E l \in Listings : startup = [pc |-> "new", types |-> l, i |-> 1]
    /\ bc = NoBuild
    /\ cam = NewCamera

NextStartup ==
    \/ StartupConstruct
    \/ StartupPiper
    \/ StartupLoop
    \/ StartupLookup

SpecStartup == InitStartup /\ [][NextStartup]_vars

(***************************************************************************)
(* Claims about the startup population (checked under SpecStartup)         *)
(***************************************************************************)
\* the robot classes of the one registry object
Robots == registry.objects[registry.instance].robots

\* C38: after the startup population "piper_follower" resolves to the
\* specialized Piper adapter and every other robot type the schema loader
\* lists resolves to the generic adapter; the catch-all default never
\* overwrites an entry that is already registered.
C38_StartupPopulation ==
    /\ [](startup.pc = "done" =>
            /\ DictGet(Robots, "piper_follower") = "PiperRobotAdapter"
            /\ \A i \in 1..Len(startup.types) :
                  startup.types[i] # "piper_follower" =>
                     DictGet(Robots, startup.types[i]) = "GenericRobotAdapter")
    /\ [][startup.pc = "loop" =>
             \A k \in RobotTypes :
                KeyPresent(Robots, k) => DictGet(Robots', k) = DictGet(Robots, k)]_vars

\* the loader listed piper_follower after another type, the population has
\* ended and a page has looked piper_follower up
C38_Witness ==
    /\ startup.pc = "done"
    /\ Len(startup.types) >= 2
    /\ startup.types[2] = "piper_follower"
    /\ reg.op = "get" /\ reg.id = "piper_follower"
    /\ reg.ret = "PiperRobotAdapter"
    /\ Len(Robots) = Len(startup.types)

(***************************************************************************)
(* GenericRobotAdapter._build_config.  A key of params is the sequence of  *)
(* its dots and of the texts between them ("arm.port" is arm, dot, port);  *)
(* None is the value "None".  The entry "cameras" of params is kept apart  *)
(* from the other entries (plain), as the code pops it first: kind says    *)
(* whether it is absent, None, "", another non-dict value ("str") or a     *)
(* dict, entries what each entry of the dict is: a dict whose type names a *)
(* camera class ("ok"), a dict whose type names none ("unknown"), or no    *)
(* dict ("notdict")                                                        *)
(***************************************************************************)
\* how many plain entries params has at most
MaxKeys == 3
Dot == "."
ParamKeys ==
    {<<"port">>, <<"zzz">>, <<"arm">>, <<"arm", Dot, "port">>,
     <<"arm", Dot, "x", Dot, "y">>, <<"zzz", Dot, "port">>,
     <<"cameras", Dot, "x">>}
ParamValues == {"None", "", "v"}
CameraKey == <<"cameras">>
CameraParams ==
    {[kind |-> k, entries |-> <<>>] : k \in {"absent", "none", "blank", "str", "dict"}}
       \cup {[kind |-> "dict", entries |-> <<e>>] : e \in {"ok", "unknown", "notdict"}}
\* {f.name for f in dataclasses.fields(config_cls)}
ValidFields == {<<"port">>, <<"arm">>, CameraKey}

\* the params _build_config is called with
ParamSets ==
    {[plain |-> p, cameras |-> c] :
        p \in UNION {[D -> ParamValues] :
                        D \in {S \in SUBSET ParamKeys : Cardinality(S) <= MaxKeys}},
        c \in CameraParams}

\* "." in k
HasDot(k) == \E i \in 1..Len(k) : k[i] = Dot

\* k.split(".", 1): where the key is split
FirstDot_Last(k) ==
    CHOOSE i \in 1..Len(k) : k[i] = Dot /\ \A j \in 1..Len(k) : k[j] = Dot => j <= i
FirstDot(k) ==
    CHOOSE i \in 1..Len(k) : k[i] = Dot /\ \A j \in 1..Len(k) : k[j] = Dot => i <= j

\* parts = k.split(".", 1)
Split(k) == <<SubSeq(k, 1, FirstDot(k) - 1), SubSeq(k, FirstDot(k) + 1, Len(k))>>

\* _build_cameras: {} unless cam_params is a non-empty dict; of its entries
\* those that are dicts whose type names a camera class are built
BuildCameras(cam_params) ==
    IF cam_params.kind # "dict" THEN <<>>
    ELSE SelectSeq(cam_params.entries, LAMBDA e : e = "ok")

\* what _build_config passes to config_cls: flat: the keyword arguments with
\* plain values; nested: those with sub-mappings; cameras: the camera
\* configurations passed as cameras, none if the keyword is not passed
build_config(params) ==
    LET plain == params.plain
        \* params.pop("cameras", {})
        cameras == BuildCameras(IF params.cameras.kind = "absent"
                                THEN [kind |-> "dict", entries |-> <<>>]
                                ELSE params.cameras)
        dotted == {k \in DOMAIN plain : HasDot(k)}
        nested == [a \in {Split(k)[1] : k \in dotted} |->
                     [r \in {Split(k)[2] : k \in {d \in dotted : Split(d)[1] = a}} |->
                        plain[CHOOSE k \in dotted : Split(k) = <<a, r>>]]]
        flat == [k \in DOMAIN plain \ dotted |-> plain[k]]
        filtered == [k \in {f \in DOMAIN flat : /\ f \in ValidFields
                                                 /\ flat[f] # "None"
                                                 /\ flat[f] # ""} |-> flat[k]]
        \* "filtered[nest_key] = nest_vals" replaces a plain value
        nest_keys == DOMAIN nested \cap ValidFields
        \* "filtered["cameras"] = cameras" replaces a sub-mapping
        cam_keys == IF cameras # <<>> THEN {CameraKey} ELSE {}
    IN [flat |-> [k \in DOMAIN filtered \ nest_keys |-> filtered[k]],
        nested |-> [a \in nest_keys \ cam_keys |-> nested[a]],
        cameras |-> cameras]

\* _build_config(robot_type, params): "raise ValueError" if the robot type
\* has no configuration class
BuildConfigCall ==
    /\ ~bc.done
    /\ bc' = [bc EXCEPT !.done = TRUE,
                        !.raised = ~bc.known,
                        !.passed = IF bc.known THEN build_config(bc.params) ELSE @]
    /\ UNCHANGED <<filterVars, filterObs, adapterVars, windowVars, teleopVars,
                   registry, reg, startup, cam>>

(***************************************************************************)
(* SpecBuild: _build_config called once with any params                    *)
(***************************************************************************)
InitBuild ==
    /\ now = 0
    /\ joint_limits = NoLimits
    /\ max_velocity = DefaultMaxVelocity
    /\ deadzone = DefaultDeadzone
    /\ timeout_ms = TimeoutMs
    /\ SafetyFilterInit
    /\ FilterObsInit
    /\ adapters = <<>>
    /\ thr = [t \in Threads |-> IdleThread]
    /\ WindowInit
    /\ registry = StartupRegistry
    /\ reg = StartupCalls
    /\ startup = StartupDone
    /\ cam = NewCamera
    /\ \E known \in BOOLEAN, params \in ParamSets :
          bc = [NoBuild EXCEPT !.known = known, !.params = params]

NextBuild == BuildConfigCall

SpecBuild == InitBuild /\ [][NextBuild]_vars

(***************************************************************************)
(* Claims about _build_config (checked under SpecBuild)                    *)
(***************************************************************************)
\* key k is a.r with no dot in a
IsSplit(k, a, r) == k = a \o <<Dot>> \o r /\ ~HasDot(a)
\* the ends of the keys
Rests ==
    UNION {{SubSeq(k, i, Len(k)) : i \in 1..Len(k) + 1} : k \in ParamKeys}
\* the dotted keys of params whose prefix is a
DottedUnder(a) ==
    {k \in DOMAIN bc.params.plain : \E r \in Rests : IsSplit(k, a, r)}
\* the known fields that are the prefix of a dotted key of params
KnownPrefixes == {a \in ValidFields : DottedUnder(a) # {}}
\* the flat keys of params that are known fields with a value other than
\* None and ""
KnownFlat ==
    {k \in DOMAIN bc.params.plain :
        ~HasDot(k) /\ k \in ValidFields /\ bc.params.plain[k] \notin {"None", ""}}
\* the sub-mapping passed for a is {r: value} over the dotted keys a.r
SubMappingOf(a) ==
    /\ a \in DOMAIN bc.passed.nested
    /\ \A k \in DottedUnder(a), r \in Rests :
          IsSplit(k, a, r) =>
             /\ r \in DOMAIN bc.passed.nested[a]
             /\ bc.passed.nested[a][r] = bc.params.plain[k]
    /\ \A r \in DOMAIN bc.passed.nested[a] :
          \E k \in DottedUnder(a) : IsSplit(k, a, r)
\* the call has returned
Built == bc.done /\ ~bc.raised

\* C39 (as stated): _build_config passes exactly every flat key that is a
\* known field with a value other than None and "" (the key cameras among
\* them), and for every dotted key a.b with a known prefix a the sub-mapping
\* a -> {b: value}, split at the first dot; everything else is dropped
\* without raising.
C39_PassesExactly ==
    /\ bc.done /\ bc.known => ~bc.raised
    /\ Built =>
          /\ \A k \in KnownFlat :
                k \in DOMAIN bc.passed.flat /\ bc.passed.flat[k] = bc.params.plain[k]
          /\ DOMAIN bc.passed.flat \subseteq KnownFlat
          /\ bc.passed.cameras # <<>> <=>
                bc.params.cameras.kind \in {"str", "dict"}
          /\ \A a \in KnownPrefixes : SubMappingOf(a)
          /\ DOMAIN bc.passed.nested \subseteq KnownPrefixes

\* the camera configurations _build_cameras builds from params["cameras"]
BuiltCameras ==
    /\ \A i \in 1..Len(bc.passed.cameras) : bc.passed.cameras[i] = "ok"
    /\ Len(bc.passed.cameras) =
          IF bc.params.cameras.kind = "dict"
          THEN Cardinality({i \in 1..Len(bc.params.cameras.entries) :
                               bc.params.cameras.entries[i] = "ok"})
          ELSE 0

\* C39 (amended): as stated, except that the entry cameras is taken out of
\* params first and passed as the camera configurations built from it, and
\* only if any is built, in which case it also replaces a sub-mapping for
\* the prefix cameras; and a flat key that is also the prefix of a dotted
\* key is passed as the sub-mapping only.
C39_BuildConfig ==
    /\ bc.done /\ bc.known => ~bc.raised
    /\ Built =>
          /\ BuiltCameras
          /\ \A a \in KnownPrefixes :
                IF a = CameraKey /\ bc.passed.cameras # <<>>
                THEN a \notin DOMAIN bc.passed.nested
                ELSE SubMappingOf(a)
          /\ DOMAIN bc.passed.nested \subseteq KnownPrefixes
          /\ DOMAIN bc.passed.flat = KnownFlat \ KnownPrefixes
          /\ \A k \in DOMAIN bc.passed.flat :
                bc.passed.flat[k] = bc.params.plain[k]

\* params held arm, arm.x.y and an unknown key, and a cameras entry that is
\* no dict: arm was passed as the sub-mapping {x.y: value} only
C39_Witness ==
    /\ Built
    /\ <<"arm">> \in KnownFlat
    /\ <<"zzz">> \in DOMAIN bc.params.plain
    /\ bc.params.cameras.kind = "str"
    /\ <<"arm">> \in DOMAIN bc.passed.nested
    /\ DOMAIN bc.passed.nested[<<"arm">>] = {<<"x", Dot, "y">>}
    /\ bc.passed.flat = EmptyMap
    /\ bc.passed.cameras = <<>>

(***************************************************************************)
(* BaseCameraAdapter: the frame timestamps and fps_stats.  The clock unit  *)
(* is one second                                                           *)
(***************************************************************************)
\* how many frames are recorded at most
MaxFrames == 3
\* the 2.0 of "now - t < 2.0" and of "len(self._fps_ts) / 2.0"
Window == 2

\* fps_stats: "now - t < 2.0"
InWindow_Inclusive(t0, t) == t0 - t <= Window
InWindow(t0, t) == t0 - t < Window

\* _record_frame: "self._fps_ts.append(time.time())"
record_frame ==
    cam' = [cam EXCEPT !.fps_ts = Append(@, now), !.frames = Append(@, now)]

\* OpenCVCameraAdapter.read_frame on an open camera whose read() returns; a
\* read_frame without camera, or whose read() raises, records nothing
ReadFrame ==
    /\ Len(cam.frames) < MaxFrames
    /\ record_frame
    /\ UNCHANGED <<filterVars, filterObs, adapterVars, windowVars, teleopVars,
                   registry, reg, startup, bc>>

\* fps_stats: the timestamps inside the window are kept; measured_fps is
\* round(len / 2.0, 1), here in tenths
fps_stats ==
    LET kept == SelectSeq(cam.fps_ts, LAMBDA t : InWindow(now, t))
        fps10 == IF kept # <<>> THEN (Len(kept) * 10) \div Window ELSE 0
    IN cam' = [cam EXCEPT !.fps_ts = kept,
                          !.called = TRUE, !.at = now, !.seen = Len(cam.frames),
                          !.ret = [measured_fps |-> fps10, frame_count |-> Len(kept)]]

\* CamerasPage._poll_frame: "stats = self._adapter.fps_stats()"
FpsStatsCall ==
    /\ fps_stats
    /\ UNCHANGED <<filterVars, filterObs, adapterVars, windowVars, teleopVars,
                   registry, reg, startup, bc>>

(***************************************************************************)
(* SpecCamera: frames are recorded and fps_stats is called at any moment   *)
(***************************************************************************)
InitCamera ==
    /\ now = 0
    /\ joint_limits = NoLimits
    /\ max_velocity = DefaultMaxVelocity
    /\ deadzone = DefaultDeadzone
    /\ timeout_ms = TimeoutMs
    /\ SafetyFilterInit
    /\ FilterObsInit
    /\ adapters = <<>>
    /\ thr = [t \in Threads |-> IdleThread]
    /\ WindowInit
    /\ registry = StartupRegistry
    /\ reg = StartupCalls
    /\ startup = StartupDone
    /\ bc = NoBuild
    /\ cam = NewCamera

NextCamera ==
    \/ ReadFrame
    \/ FpsStatsCall
    \/ Advance /\ UNCHANGED <<adapterVars, appVars, teleopVars>>

SpecCamera == InitCamera /\ [][NextCamera]_vars

(***************************************************************************)
(* Claims about fps_stats (checked under SpecCamera)                       *)
(***************************************************************************)
\* the frames recorded before the last fps_stats call and less than two
\* seconds before it
Recent == {i \in 1..cam.seen : cam.at - cam.frames[i] < Window}

\* C40: fps_stats() counts exactly the frames recorded less than 2 seconds
\* before the call (the rate is that count over 2 seconds), discards all
\* older timestamps, and reports 0 fps and 0 frames once no frame has been
\* recorded for 2 seconds or more, whatever the earlier frame history.
C40_RollingWindow ==
    cam.called =>
       /\ cam.ret.frame_count = Cardinality(Recent)
       /\ cam.ret.measured_fps * Window = cam.ret.frame_count * 10
       /\ Recent = {} => (cam.ret.frame_count = 0 /\ cam.ret.measured_fps = 0)
       \* what is left in _fps_ts: the recent frames and those recorded since
       /\ Len(cam.fps_ts) = Cardinality(Recent) + (Len(cam.frames) - cam.seen)
       /\ \A j \in 1..Len(cam.fps_ts) : cam.fps_ts[j] > cam.at - Window

\* frames were recorded, then none for two seconds: fps_stats dropped them
\* all and reported zero
C40_Witness ==
    /\ cam.called
    /\ cam.seen >= 2
    /\ cam.at - cam.frames[cam.seen] = Window
    /\ cam.ret = [measured_fps |-> 0, frame_count |-> 0]
    /\ cam.fps_ts = <<>>

=============================================================================
